---- MODULE Spec2Model ----
(***************************************************************************)
(* AutoGit Pro: the terminal commit workflow (commands/autoCommit.ts), the *)
(* terminal pull workflow (commands/autoPull.ts) and the pseudo-terminal   *)
(* session both are driven through (ui/terminal.ts, class                  *)
(* TerminalWorkflow).                                                      *)
(*                                                                         *)
(* A workflow is an async function: between two awaits it runs to          *)
(* completion, so one action of the model is "the awaited call returns and *)
(* the workflow runs up to its next await".  pc names the call the         *)
(* workflow is awaiting; the call has been issued when pc takes the value. *)
(* Keystrokes are separate events of the host's event loop.                *)
(*                                                                         *)
(* Text typed by the user is a sequence of characters.  Error text of the  *)
(* Git tool is a sequence of words; String.includes is the search for a    *)
(* contiguous run of words.                                                *)
(***************************************************************************)
EXTENDS Integers, Sequences, FiniteSets

\* ------------------------------------------------------------------ bounds
\* longest line the user types at the terminal
MaxLen == 1
\* automatic commit runs started by the debounce timer
MaxRuns == 3
\* characters of a line entered at a confirm or select prompt
MaxLine == 4
\* lines of a status output
MaxStatusLines == 2

\* longest branch name given to createBranch
MaxName == 3
\* words of an error text given to the conflict classifier
MaxWords == 4

\* ------------------------------------------------------------- text helpers
NULL == "null"
Empty == << >>
Space == " "
\* keys the user presses besides Enter, Backspace and Ctrl-C
Chars == {"n", Space}
\* the keys pressed while the workflow is at p: at the branch prompt also '~',
\* which no branch name may hold
Keys(p) == IF p = "promptBranch" THEN Chars \cup {"~"} ELSE Chars

\* the white space of the texts: the space and the line feed
WhiteSpace == {Space, "\n"}

RECURSIVE TrimLeft(_)
TrimLeft(s) ==
  IF s # Empty /\ Head(s) \in WhiteSpace THEN TrimLeft(Tail(s)) ELSE s

RECURSIVE TrimRight(_)
TrimRight(s) ==
  IF s # Empty /\ s[Len(s)] \in WhiteSpace
  THEN TrimRight(SubSeq(s, 1, Len(s) - 1)) ELSE s

\* String.prototype.trim
Trim(s) == TrimRight(TrimLeft(s))

\* String.prototype.toLowerCase, per character and per word
LowerChar(c) ==
  CASE c = "Y" -> "y"
    [] c = "N" -> "n"
    [] c = "E" -> "e"
    [] c = "S" -> "s"
    [] c = "CONFLICT" -> "conflict"
    [] c = "Merge" -> "merge"
    [] c = "Rebase" -> "rebase"
    [] OTHER -> c

ToLower(s) == [i \in 1..Len(s) |-> LowerChar(s[i])]

\* String.prototype.includes
Includes(text, pat) ==
  \E i \in 1..(Len(text) - Len(pat) + 1) : SubSeq(text, i, i + Len(pat) - 1) = pat

\* ------------------------------------------------------ values of the model
MainBranch == <<"m">>
AiMessage == <<"a", "i">>
UpdateFiles == <<"u">>
HintYes == <<"Y", "/", "n">>
HintNo == <<"y", "/", "N">>

RemoteNames == {"origin", "upstream"}

\* error text of a failed push
ErrRejected == <<"!", "rejected", "fetch", "first">>
ErrDenied == <<"permission", "denied">>
ErrUpToDate == <<"Everything", "up-to-date">>
PushErrors == {ErrRejected, ErrDenied, ErrUpToDate}

\* error text of a failed pull
ErrUnrelated == <<"refusing", "to", "merge", "unrelated", "histories">>
ErrUnrelatedWord == <<"unrelated", "branch">>
ErrConflict == <<"CONFLICT", "Merge", "conflict">>
ErrNetwork == <<"could", "not", "resolve", "host">>
PullErrors == {ErrUnrelated, ErrUnrelatedWord, ErrConflict, ErrNetwork}

\* inputResolver = null, and the resolver input() installs
NoResolver == [set |-> FALSE, defaultValue |-> Empty]
Resolver(defaultValue) == [set |-> TRUE, defaultValue |-> defaultValue]

NoHist == [pulls |-> << >>, kind |-> "none", body |-> "none", analysis |-> "none",
           confirm |-> "none", stage |-> "none", commit |-> "none", switch |-> "none",
           upstream |-> "none", pushes |-> << >>, fetch |-> "none"]

\* no AutoCommitManager was created; no function is being called
NoManager == [active |-> FALSE]
NoCall == [fun |-> "none"]

Ok == [success |-> TRUE, error |-> Empty]
Fail(e) == [success |-> FALSE, error |-> e]

VARIABLES
  wf,             \* "commit" (executeAutoCommit) or "pull" (executeAutoPull)
  cfg,            \* getExtensionConfig() and the quickMode argument
  remotes,        \* names of the remotes configured in the repository
  pc,             \* the call the workflow awaits
  w,              \* the workflow's local variables
  currentInput,   \* TerminalWorkflow.currentInput
  inputResolver,  \* TerminalWorkflow.inputResolver
  isRunning,      \* TerminalWorkflow.isRunning
  terminal,       \* TerminalWorkflow.terminal is non-null
  timers,         \* pending setTimeout callbacks
  gitLog,         \* history: Git operations issued, in order
  promptLog,      \* history: prompts issued, in order
  resolved,       \* history: number of prompts resolved
  ctrlC,          \* history: Ctrl-C was pressed
  outcome,        \* history: how the run ended
  hist,           \* history: the results of the pulls, the report of a failed pull,
                  \* the upstream hasUpstream() found, the pull workflow's push
  mgr,            \* the AutoCommitManager singleton and its runs
  call            \* a call of one function: its arguments and its result

\* the variables of a workflow run and its terminal session
wvars == <<wf, cfg, remotes, pc, w, currentInput, inputResolver, isRunning,
           terminal, timers, gitLog, promptLog, resolved, ctrlC, outcome, hist>>

vars == <<wvars, mgr, call>>

\* ------------------------------------------------------- pure functions
\* the resolver installed by TerminalWorkflow.input
ResolveInput(value, defaultValue) ==
  IF Trim(value) # Empty THEN Trim(value) ELSE defaultValue

\* a confirm that never falls back to its default
Confirm_NoDefault(response, defaultYes) ==
  ToLower(response) = <<"y">> \/ ToLower(response) = <<"y", "e", "s">>

\* TerminalWorkflow.confirm, applied to the resolved line
Confirm(response, defaultYes) ==
  LET defaultStr == IF defaultYes THEN HintYes ELSE HintNo IN
  IF response = defaultStr \/ response = Empty
  THEN defaultYes
  ELSE ToLower(response) = <<"y">> \/ ToLower(response) = <<"y", "e", "s">>

Digits == {"0", "1", "2", "3", "4", "5", "6", "7", "8", "9"}
DigitVal(c) ==
  CASE c = "0" -> 0 [] c = "1" -> 1 [] c = "2" -> 2 [] c = "3" -> 3 [] c = "4" -> 4
    [] c = "5" -> 5 [] c = "6" -> 6 [] c = "7" -> 7 [] c = "8" -> 8 [] c = "9" -> 9

RECURSIVE LeadingDigits(_, _)
LeadingDigits(s, acc) ==
  IF s # Empty /\ Head(s) \in Digits
  THEN LeadingDigits(Tail(s), acc * 10 + DigitVal(Head(s)))
  ELSE acc

\* parseInt: leading white space is skipped, a sign is read, and the leading
\* run of digits is the value; without a digit there the result is NaN
ParseInt(s) ==
  LET t == TrimLeft(s)
      signed == t # Empty /\ Head(t) \in {"+", "-"}
      u == IF signed THEN Tail(t) ELSE t IN
  IF u # Empty /\ Head(u) \in Digits
  THEN [nan |-> FALSE,
        val |-> IF signed /\ Head(t) = "-" THEN 0 - LeadingDigits(u, 0)
                ELSE LeadingDigits(u, 0)]
  ELSE [nan |-> TRUE, val |-> 0]

\* String(n) for the indices the select menu shows
NumString(n) == CASE n = 1 -> <<"1">> [] n = 2 -> <<"2">> [] n = 3 -> <<"3">>

\* TerminalWorkflow.select, applied to the resolved line; every comparison
\* with NaN is false
Select(response, options, defaultIndex) ==
  LET n == ParseInt(response) IN
  IF ~n.nan /\ n.val - 1 >= 0 /\ n.val - 1 < Len(options)
  THEN options[n.val]
  ELSE options[defaultIndex + 1]

\* runWorkflow: the first push was rejected
IsRejected(res) == ~res.success /\ Includes(res.error, <<"rejected">>)

\* a retry on every failed pull, whatever its error text
IsUnrelated_AnyFailure(res) == ~res.success

\* runWorkflow, runPullWorkflow: the pull failed on unrelated histories
IsUnrelated(res) == ~res.success /\ Includes(res.error, <<"unrelated", "histories">>)

\* runWorkflow: the conflict test of the recovery pull
IsConflict(errorText) ==
  LET l == ToLower(errorText) IN
  \/ Includes(l, <<"conflict">>)
  \/ Includes(l, <<"could", "not", "apply">>)
  \/ Includes(l, <<"merge">>)
  \/ Includes(l, <<"rebase">>)

\* a classifier that reads the text as it is written
DetectConflictType_CaseSensitive(error) ==
  IF Includes(error, <<"rebase">>)
     /\ (Includes(error, <<"conflict">>) \/ Includes(error, <<"could", "not", "apply">>))
  THEN "rebase"
  ELSE IF Includes(error, <<"merge">>) /\ Includes(error, <<"conflict">>)
  THEN "merge"
  ELSE IF Includes(error, <<"conflict">>) \/ Includes(error, <<"would", "be", "overwritten">>)
  THEN "pull"
  ELSE NULL

\* autoPull.ts detectConflictType
DetectConflictType(error) ==
  LET lowerError == ToLower(error) IN
  IF Includes(lowerError, <<"rebase">>)
     /\ (Includes(lowerError, <<"conflict">>) \/ Includes(lowerError, <<"could", "not", "apply">>))
  THEN "rebase"
  ELSE IF Includes(lowerError, <<"merge">>) /\ Includes(lowerError, <<"conflict">>)
  THEN "merge"
  ELSE IF Includes(lowerError, <<"conflict">>) \/ Includes(lowerError, <<"would", "be", "overwritten">>)
  THEN "pull"
  ELSE NULL

\* a name test that accepts every name
ValidBranchName_Any(branch) == TRUE

\* createBranch: the name test made before the tool is called
ValidBranchName(branch) ==
  /\ Trim(branch) # Empty
  /\ \A i \in 1..Len(branch) :
       branch[i] \notin WhiteSpace \cup {"~", "^", ":", "?", "*", "[", "]", "\\"}

\* pull(): the flags of the argument vector
PullFlags(rebase, allowUnrelatedHistories) ==
  (IF rebase THEN {"--rebase"} ELSE {})
    \cup (IF allowUnrelatedHistories THEN {"--allow-unrelated-histories"} ELSE {})

\* push(): the upstream flag
PushFlags(setUpstream) == IF setUpstream THEN {"-u"} ELSE {}

\* the remote names of getRemotes() without duplicates, in listing order
RemoteSeq(S) ==
  (IF "origin" \in S THEN <<"origin">> ELSE << >>)
    \o (IF "upstream" \in S THEN <<"upstream">> ELSE << >>)

\* Array.prototype.indexOf, 0-based, -1 when absent
IndexOf(seq, x) ==
  IF \E i \in 1..Len(seq) : seq[i] = x
  THEN (CHOOSE i \in 1..Len(seq) : seq[i] = x /\ \A j \in 1..(i - 1) : seq[j] # x) - 1
  ELSE -1

\* ------------------------------------------------------------ the session
PromptPcs == {"promptRepoUrl", "promptBranch", "promptMessage", "promptRemoteUrl",
              "promptConfirm", "promptSelect", "promptPullBranch", "promptConfirmPull"}

\* the repository operation a position of the workflow awaits
OpName(p) ==
  CASE p \in {"push1", "push2"} -> "push"
    [] p \in {"pull1", "pull2"} -> "pull"
    [] p \in {"hasRemote1", "hasRemote2"} -> "hasRemote"
    [] p = "addRemoteInit" -> "addRemote"
    [] OTHER -> p

\* operations that change the repository or talk to the remote
Mutating == {"stageAll", "commit", "checkoutBranch", "createBranch", "fetch", "pull", "push"}

\* the workflow goes on to await p: a prompt (a is its default value) or a call
\* (a is its flags); r is inputResolver as the caller leaves it
Cont(p, a, wn, r) ==
  /\ pc' = p
  /\ w' = wn
  /\ gitLog' = IF p \in PromptPcs THEN gitLog
               ELSE Append(gitLog, [op |-> OpName(p), flags |-> a])
  /\ promptLog' = IF p \in PromptPcs THEN Append(promptLog, p) ELSE promptLog
  /\ inputResolver' = IF p \in PromptPcs THEN Resolver(a) ELSE r
  /\ UNCHANGED <<isRunning, timers, outcome>>

\* the workflow returns; c is "close" (terminal.close()), "closeImmediately"
\* (the 3 s timer of the success path) or "open" (the session is left open)
Exit(o, c, wn, r) ==
  /\ pc' = "ended"
  /\ w' = wn
  /\ outcome' = o
  /\ inputResolver' = r
  /\ isRunning' = IF c = "close" THEN FALSE ELSE isRunning
  /\ timers' = IF c = "open" THEN timers ELSE timers \cup {c}
  /\ UNCHANGED <<gitLog, promptLog>>

\* a catch block that closes the session
Caught_Closes(wn, r) == Exit("exception", "close", wn, r)

\* the catch block of executeAutoCommit / executeAutoPull: a rejected await is
\* reported and the session is left open
Caught(wn, r) == Exit("exception", "open", wn, r)

W0 == [currentBranch |-> Empty, targetBranch |-> Empty, needsBranchSwitch |-> FALSE,
       createNewBranch |-> FALSE, commitMessage |-> Empty, pushBranch |-> Empty,
       errorText |-> Empty, remoteNames |-> << >>, selectedRemote |-> NULL,
       pullBranch |-> Empty, statusSeen |-> "none"]

Init ==
  /\ wf \in {"commit", "pull"}
  /\ cfg \in [quickMode : BOOLEAN, autoStageAll : BOOLEAN, pushAfterCommit : BOOLEAN,
              aiValid : BOOLEAN, defaultRemote : RemoteNames]
  /\ wf = "pull" => (~cfg.quickMode /\ cfg.autoStageAll /\ cfg.pushAfterCommit /\ ~cfg.aiValid)
  /\ remotes \in SUBSET RemoteNames
  /\ wf = "commit" => remotes \subseteq {cfg.defaultRemote}
  /\ pc = "isGitInstalled"
  /\ w = W0
  /\ currentInput = Empty
  /\ inputResolver = NoResolver
  /\ isRunning = TRUE
  /\ terminal = TRUE
  /\ timers = {}
  /\ gitLog = <<[op |-> "isGitInstalled", flags |-> {}]>>
  /\ promptLog = << >>
  /\ resolved = 0
  /\ ctrlC = FALSE
  /\ outcome = "running"
  /\ hist = NoHist
  /\ mgr = NoManager
  /\ call = NoCall

\* an awaited call returns: the terminal's own fields are not touched
Returns == UNCHANGED <<mgr, call, wf, cfg, currentInput, terminal, ctrlC, resolved>>

\* an Enter that leaves the resolver installed
ClearedResolver_Kept == inputResolver

\* handleInput('\r'): this.inputResolver = null
ClearedResolver == NoResolver

\* handleInput('\r') with a resolver installed: the line is handed to the
\* resolver, the buffer is emptied, the workflow resumes
Entered ==
  /\ terminal
  /\ inputResolver.set
  /\ currentInput' = Empty
  /\ resolved' = resolved + 1
  /\ UNCHANGED <<mgr, call, wf, cfg, terminal, ctrlC>>

Answer == ResolveInput(currentInput, inputResolver.defaultValue)

\* handleInput('\r') with no resolver installed: only the line break is echoed
EnterIdle ==
  /\ terminal
  /\ ~inputResolver.set
  /\ UNCHANGED vars

\* handleInput of a printable character
HandleChar ==
  /\ terminal
  /\ Len(currentInput) < MaxLen
  /\ \E c \in Keys(pc) : currentInput' = Append(currentInput, c)
  /\ UNCHANGED <<mgr, call, wf, cfg, remotes, pc, w, inputResolver, isRunning, terminal, timers,
                 gitLog, promptLog, resolved, ctrlC, outcome, hist>>

\* handleInput('\x7f')
HandleBackspace ==
  /\ terminal
  /\ Len(currentInput) > 0
  /\ currentInput' = SubSeq(currentInput, 1, Len(currentInput) - 1)
  /\ UNCHANGED <<mgr, call, wf, cfg, remotes, pc, w, inputResolver, isRunning, terminal, timers,
                 gitLog, promptLog, resolved, ctrlC, outcome, hist>>

\* handleInput('\x03'): 'Cancelled by user' and this.close()
HandleCtrlC ==
  /\ terminal
  /\ ctrlC' = TRUE
  /\ isRunning' = FALSE
  /\ timers' = timers \cup {"close"}
  /\ UNCHANGED <<mgr, call, wf, cfg, remotes, pc, w, currentInput, inputResolver, terminal,
                 gitLog, promptLog, resolved, outcome, hist>>

\* the 2 s timer of close() fires
CloseTimer ==
  /\ "close" \in timers
  /\ timers' = timers \ {"close"}
  /\ terminal' = FALSE
  /\ UNCHANGED <<mgr, call, wf, cfg, remotes, pc, w, currentInput, inputResolver, isRunning,
                 gitLog, promptLog, resolved, ctrlC, outcome, hist>>

\* the 3 s timer of the success path fires: closeImmediately()
CloseImmediatelyTimer ==
  /\ "closeImmediately" \in timers
  /\ timers' = timers \ {"closeImmediately"}
  /\ terminal' = FALSE
  /\ isRunning' = FALSE
  /\ UNCHANGED <<mgr, call, wf, cfg, remotes, pc, w, currentInput, inputResolver,
                 gitLog, promptLog, resolved, ctrlC, outcome, hist>>

\* ------------------------------------------- commit workflow (runWorkflow)
\* Steps 1 of both workflows: isGitInstalled() returns
GitInstalledReturns ==
  /\ pc = "isGitInstalled"
  /\ \E gitInstalled \in BOOLEAN :
       IF gitInstalled
       THEN Cont("detectRepository", {}, w, inputResolver)
       ELSE Exit("gitMissing", "open", w, inputResolver)
  /\ Returns
  /\ UNCHANGED <<remotes, hist>>

\* Step 2: detectRepository() returns; a folder that is no repository has no
\* remotes
DetectRepositoryReturns ==
  /\ pc = "detectRepository"
  /\ wf = "commit"
  /\ \/ Cont("getCurrentBranch", {}, w, inputResolver)
     \/ /\ remotes = {}
        /\ \E workspacePath \in BOOLEAN :
             IF workspacePath
             THEN Cont("promptRepoUrl", Empty, w, inputResolver)
             ELSE Exit("noFolder", "open", w, inputResolver)
  /\ Returns
  /\ UNCHANGED <<remotes, hist>>

\* Step 2: the repository URL is entered
EnterRepoUrl ==
  /\ pc = "promptRepoUrl"
  /\ Entered
  /\ IF Answer = Empty
     THEN Exit("noRepoUrl", "open", w, ClearedResolver)
     ELSE Cont("initRepository", {}, w, ClearedResolver)
  /\ UNCHANGED <<remotes, hist>>

InitRepositoryReturns ==
  /\ pc = "initRepository"
  /\ \E success \in BOOLEAN :
       IF success
       THEN Cont("addRemoteInit", {}, w, inputResolver)
       ELSE Exit("initFailed", "open", w, inputResolver)
  /\ Returns
  /\ UNCHANGED <<remotes, hist>>

\* addRemote(workspacePath, 'origin', repoUrl) returns
AddRemoteInitReturns ==
  /\ pc = "addRemoteInit"
  /\ \E success \in BOOLEAN :
       IF success
       THEN Cont("getCurrentBranch", {}, w, inputResolver) /\ remotes' = remotes \cup {"origin"}
       ELSE Exit("addRemoteFailed", "open", w, inputResolver) /\ UNCHANGED remotes
  /\ Returns
  /\ UNCHANGED hist

\* Step 3: getCurrentBranch() returns; a failure and 'HEAD' both give 'main'
GetCurrentBranchReturns ==
  /\ pc = "getCurrentBranch"
  /\ wf = "commit"
  /\ Cont("getStatus", {}, [w EXCEPT !.currentBranch = MainBranch], inputResolver)
  /\ Returns
  /\ UNCHANGED <<remotes, hist>>

\* Step 9, the confirmation, skipped in quick mode; then Step 10, staging
ToStage(wn, r) ==
  IF cfg.autoStageAll
  THEN Cont("stageAll", {}, wn, r)
  ELSE Cont("commit", {}, wn, r)

\* a confirmation that quick mode does not skip
ToConfirm_Always(wn, r) == Cont("promptConfirm", HintYes, wn, r)

ToConfirm(wn, r) ==
  IF ~cfg.quickMode
  THEN Cont("promptConfirm", HintYes, wn, r)
  ELSE ToStage(wn, r)

\* Step 7: the message prompt, skipped in quick mode when a message exists;
\* then the empty-message test and Step 8, hasRemote
ToMessage(wn, r) ==
  IF ~cfg.quickMode \/ wn.commitMessage = Empty
  THEN Cont("promptMessage",
            IF wn.commitMessage # Empty THEN wn.commitMessage ELSE UpdateFiles, wn, r)
  ELSE Cont("hasRemote1", {}, wn, r)

\* Step 6: the generator is asked only when the AI configuration is valid
ToGenerate(wn, r) ==
  IF cfg.aiValid
  THEN Cont("getDiffContext", {}, wn, r)
  ELSE ToMessage(wn, r)

\* Step 13: shouldPush = config.pushAfterCommit && await hasRemote(...)
ToPush(wn, r) ==
  IF cfg.pushAfterCommit
  THEN Cont("hasRemote2", {}, wn, r)
  ELSE Exit("success", "closeImmediately", wn, r)

\* what the status query returned (statusResult)
StatusSeen(success, hasChanges) ==
  IF ~success THEN "failed" ELSE IF hasChanges THEN "dirty" ELSE "clean"

\* a status gate that never stops the run
NoChanges_Never(hasChanges) == FALSE

\* the status gate: !statusResult.data.hasChanges
NoChanges(hasChanges) == ~hasChanges

\* the status gate and Step 5
GetStatusReturns ==
  /\ pc = "getStatus"
  /\ wf = "commit"
  /\ \E success \in BOOLEAN, hasChanges \in BOOLEAN :
       LET wn == [w EXCEPT !.statusSeen = StatusSeen(success, hasChanges),
                           !.targetBranch = IF success /\ ~NoChanges(hasChanges)
                                            THEN w.currentBranch ELSE @] IN
       IF ~success
       THEN Exit("statusFailed", "open", wn, inputResolver)
       ELSE IF NoChanges(hasChanges)
       THEN Exit("noChanges", "close", wn, inputResolver)
       ELSE IF ~cfg.quickMode
       THEN Cont("promptBranch", w.currentBranch, wn, inputResolver)
       ELSE ToGenerate(wn, inputResolver)
  /\ Returns
  /\ UNCHANGED <<remotes, hist>>

\* a branch prompt that switches at once, before anything is committed
EnterBranch_SwitchFirst ==
  /\ pc = "promptBranch"
  /\ Entered
  /\ LET wn == [w EXCEPT !.targetBranch = Answer,
                         !.needsBranchSwitch = (Answer # w.currentBranch)] IN
     IF wn.needsBranchSwitch
     THEN Cont("checkoutBranch", {}, wn, ClearedResolver)
     ELSE ToGenerate(wn, ClearedResolver)
  /\ UNCHANGED <<remotes, hist>>

\* Step 5: the target branch is entered; the decision is only recorded
EnterBranch ==
  /\ pc = "promptBranch"
  /\ Entered
  /\ LET wn == [w EXCEPT !.targetBranch = Answer,
                         !.needsBranchSwitch = (Answer # w.currentBranch)] IN
     IF wn.needsBranchSwitch
     THEN Cont("listBranches", {}, wn, ClearedResolver)
     ELSE ToGenerate(wn, ClearedResolver)
  /\ UNCHANGED <<remotes, hist>>

\* listBranches() returns; a failed listing counts as the empty list
ListBranchesReturns ==
  /\ pc = "listBranches"
  /\ \E listed \in BOOLEAN :
       /\ listed => ValidBranchName(w.targetBranch)   \* git lists valid names only
       /\ ToGenerate([w EXCEPT !.createNewBranch = ~listed], inputResolver)
  /\ Returns
  /\ UNCHANGED <<remotes, hist>>

GetDiffContextReturns ==
  /\ pc = "getDiffContext"
  /\ \E success \in BOOLEAN :
       IF success
       THEN Cont("generateCommitMessage", {}, w, inputResolver)
       ELSE ToMessage(w, inputResolver)
  /\ Returns
  /\ UNCHANGED <<remotes, hist>>

\* a generator whose failure ends the run
GenerateReturns_Abort ==
  /\ pc = "generateCommitMessage"
  /\ \E success \in BOOLEAN, message \in {Empty, AiMessage} :
       IF success /\ message # Empty
       THEN ToMessage([w EXCEPT !.commitMessage = message], inputResolver)
       ELSE Exit("generationFailed", "open", w, inputResolver)
  /\ Returns
  /\ UNCHANGED <<remotes, hist>>

\* generateCommitMessage() returns a message, an empty message or a failure
GenerateReturns ==
  /\ pc = "generateCommitMessage"
  /\ \E success \in BOOLEAN, message \in {Empty, AiMessage}, rejects \in BOOLEAN :
       IF success /\ message # Empty
       THEN LET wn == [w EXCEPT !.commitMessage = message] IN
            IF rejects   \* trackAiMessage()
            THEN Caught(wn, inputResolver)
            ELSE ToMessage(wn, inputResolver)
       ELSE ToMessage(w, inputResolver)
  /\ Returns
  /\ UNCHANGED <<remotes, hist>>

\* Step 7: the commit message is entered
EnterMessage ==
  /\ pc = "promptMessage"
  /\ Entered
  /\ LET wn == [w EXCEPT !.commitMessage = Answer] IN
     IF wn.commitMessage = Empty
     THEN Exit("emptyMessage", "open", wn, ClearedResolver)
     ELSE Cont("hasRemote1", {}, wn, ClearedResolver)
  /\ UNCHANGED <<remotes, hist>>

\* a remote test that is always true
HasRemote_Always(listOk) == TRUE

\* hasRemote(): the listing succeeded and names the remote
HasRemote(listOk) == listOk /\ cfg.defaultRemote \in remotes

\* Step 8: hasRemote() returns
HasRemote1Returns ==
  /\ pc = "hasRemote1"
  /\ \E listOk \in BOOLEAN :
       IF ~HasRemote(listOk)
       THEN Cont("promptRemoteUrl", Empty, w, inputResolver)
       ELSE ToConfirm(w, inputResolver)
  /\ Returns
  /\ UNCHANGED <<remotes, hist>>

\* Step 8: the remote URL is entered; an empty line skips addRemote
EnterRemoteUrl ==
  /\ pc = "promptRemoteUrl"
  /\ Entered
  /\ IF Answer # Empty
     THEN Cont("addRemote", {}, w, ClearedResolver)
     ELSE ToConfirm(w, ClearedResolver)
  /\ UNCHANGED <<remotes, hist>>

\* addRemote(repoPath, remoteName, remoteUrl) returns; the tool refuses a name
\* that exists; a failure is reported and the run goes on
AddRemoteReturns ==
  /\ pc = "addRemote"
  /\ \E success \in BOOLEAN :
       /\ success => cfg.defaultRemote \notin remotes
       /\ remotes' = IF success THEN remotes \cup {cfg.defaultRemote} ELSE remotes
  /\ ToConfirm(w, inputResolver)
  /\ Returns
  /\ UNCHANGED hist

\* a confirmation whose answer is not read
Declined_Never(confirmed) == FALSE

\* Step 9: if (!confirmed)
Declined(confirmed) == ~confirmed

\* Step 9: the confirmation is answered
EnterConfirm ==
  /\ pc = "promptConfirm"
  /\ Entered
  /\ LET confirmed == Confirm(Answer, TRUE) IN
     /\ hist' = [hist EXCEPT !.confirm = IF confirmed THEN "yes" ELSE "no"]
     /\ IF Declined(confirmed)
        THEN Exit("cancelled", "close", w, ClearedResolver)
        ELSE ToStage(w, ClearedResolver)
  /\ UNCHANGED remotes

\* a result test that sees no failure
Failed_Ignored(success) == FALSE

\* Steps 10 and 11: if (!stageResult.success), if (!commitResult.success)
Failed(success) == ~success

\* a switch result test that sees no failure
SwitchFailed_Ignored(success) == FALSE

\* Step 12: if (!createResult.success), if (!checkoutResult.success)
SwitchFailed(success) == ~success

\* Step 10: stageAll() returns
StageAllReturns ==
  /\ pc = "stageAll"
  /\ \E success \in BOOLEAN :
       /\ hist' = [hist EXCEPT !.stage = IF success THEN "ok" ELSE "failed"]
       /\ IF Failed(success)
          THEN Exit("stageFailed", "open", w, inputResolver)
          ELSE Cont("commit", {}, w, inputResolver)
  /\ Returns
  /\ UNCHANGED remotes

\* Steps 11 and 12: commit() returns; only now the recorded switch is made
CommitReturns ==
  /\ pc = "commit"
  /\ \E success \in BOOLEAN, rejects \in BOOLEAN :
       /\ hist' = [hist EXCEPT !.commit = IF success THEN "ok" ELSE "failed"]
       /\ IF Failed(success)
          THEN Exit("commitFailed", "open", w, inputResolver)
          ELSE IF rejects   \* trackCommit()
          THEN Caught(w, inputResolver)
          ELSE LET wn == [w EXCEPT !.pushBranch = w.currentBranch] IN
               IF w.needsBranchSwitch
               THEN IF w.createNewBranch
                    THEN Cont("createBranch", {}, wn, inputResolver)
                    ELSE Cont("checkoutBranch", {}, wn, inputResolver)
               ELSE ToPush(wn, inputResolver)
  /\ Returns
  /\ UNCHANGED remotes

\* Step 12: createBranch() returns; an invalid name fails before the tool runs
CreateBranchReturns ==
  /\ pc = "createBranch"
  /\ \E success \in BOOLEAN :
       /\ success => ValidBranchName(w.targetBranch)
       /\ hist' = [hist EXCEPT !.switch = IF success THEN "ok" ELSE "failed"]
       /\ IF SwitchFailed(success)
          THEN Exit("switchFailed", "open", w, inputResolver)
          ELSE ToPush([w EXCEPT !.pushBranch = w.targetBranch], inputResolver)
  /\ Returns
  /\ UNCHANGED remotes

\* Step 12: checkoutBranch() returns
CheckoutBranchReturns ==
  /\ pc = "checkoutBranch"
  /\ \E success \in BOOLEAN :
       /\ hist' = [hist EXCEPT !.switch = IF success THEN "ok" ELSE "failed"]
       /\ IF SwitchFailed(success)
          THEN Exit("switchFailed", "open", w, inputResolver)
          ELSE ToPush([w EXCEPT !.pushBranch = w.targetBranch], inputResolver)
  /\ Returns
  /\ UNCHANGED remotes

\* Step 13: the second hasRemote() returns
HasRemote2Returns ==
  /\ pc = "hasRemote2"
  /\ \E listOk \in BOOLEAN :
       IF HasRemote(listOk)
       THEN Cont("hasUpstream", {}, w, inputResolver)
       ELSE Exit("success", "closeImmediately", w, inputResolver)
  /\ Returns
  /\ UNCHANGED <<remotes, hist>>

\* hasUpstream() returns and the first push is issued
HasUpstreamReturns ==
  /\ pc = "hasUpstream"
  /\ wf = "commit"
  /\ \E upstreamSet \in BOOLEAN :
       /\ hist' = [hist EXCEPT !.upstream = IF upstreamSet THEN "set" ELSE "unset"]
       /\ Cont("push1", PushFlags(~upstreamSet), w, inputResolver)
  /\ Returns
  /\ UNCHANGED remotes

\* the results push() and pull() can return
PushResults == {Ok} \cup {Fail(e) : e \in PushErrors}
PullResults == {Ok} \cup {Fail(e) : e \in PullErrors}

\* the first push returns; a rejection starts the recovery pull
PushReturns ==
  /\ pc = "push1"
  /\ \E pushResult \in PushResults, rejects \in BOOLEAN :
       IF IsRejected(pushResult)
       THEN Cont("pull1", PullFlags(TRUE, FALSE), w, inputResolver)
       ELSE IF ~pushResult.success
       THEN Exit("pushFailed", "open", w, inputResolver)
       ELSE IF rejects   \* trackPush()
       THEN Caught(w, inputResolver)
       ELSE Exit("success", "closeImmediately", w, inputResolver)
  /\ Returns
  /\ UNCHANGED <<remotes, hist>>

\* what follows a pull that did not end in the unrelated-histories retry
\* (rejects: trackPull() of the pull workflow)
AfterPull(pullResult, onSuccess, flags, rejects) ==
  IF ~pullResult.success
  THEN Cont("analyzeGitError", {}, [w EXCEPT !.errorText = pullResult.error], inputResolver)
  ELSE IF rejects
  THEN Caught(w, inputResolver)
  ELSE Cont(onSuccess, flags, w, inputResolver)

\* the recovery pull returns
PullReturns ==
  /\ pc = "pull1"
  /\ wf = "commit"
  /\ \E pullResult \in PullResults :
       /\ hist' = [hist EXCEPT !.pulls = Append(@, pullResult)]
       /\ IF IsUnrelated(pullResult)
          THEN Cont("pull2", PullFlags(FALSE, TRUE), w, inputResolver)
          ELSE AfterPull(pullResult, "push2", PushFlags(FALSE), FALSE)
  /\ Returns
  /\ UNCHANGED remotes

\* the pull with --allow-unrelated-histories returns
PullRetryReturns ==
  /\ pc = "pull2"
  /\ wf = "commit"
  /\ \E pullResult \in PullResults :
       /\ hist' = [hist EXCEPT !.pulls = Append(@, pullResult)]
       /\ AfterPull(pullResult, "push2", PushFlags(FALSE), FALSE)
  /\ Returns
  /\ UNCHANGED remotes

\* the outcomes of analyzeGitError()
Analyses == {"notConfigured", "failed", "explained"}
ReportBody(aiAnalysis) == IF aiAnalysis = "explained" THEN "ai" ELSE "static"

\* analyzeGitError() returns: conflict or plain pull failure is reported, the
\* explanation of the AI replaces the static text when there is one
AnalyzeReturns ==
  /\ pc = "analyzeGitError"
  /\ wf = "commit"
  /\ \E aiAnalysis \in Analyses, rejects \in BOOLEAN :
       /\ hist' = [hist EXCEPT
                     !.kind = IF IsConflict(w.errorText) THEN "conflict" ELSE "pullFailed",
                     !.body = ReportBody(aiAnalysis), !.analysis = aiAnalysis]
       /\ IF IsConflict(w.errorText)
          THEN IF rejects   \* executeCommand('workbench.view.scm')
               THEN Caught(w, inputResolver)
               ELSE Exit("conflict", "open", w, inputResolver)
          ELSE Exit("pullFailed", "open", w, inputResolver)
  /\ Returns
  /\ UNCHANGED remotes

\* a retry push that starts another recovery cycle when it is rejected again
PushRetryReturns_Again ==
  /\ pc = "push2"
  /\ \E pushResult \in PushResults :
       IF IsRejected(pushResult)
       THEN Cont("pull1", PullFlags(TRUE, FALSE), w, inputResolver)
       ELSE IF ~pushResult.success
       THEN Exit("pushFailed", "open", w, inputResolver)
       ELSE Exit("success", "closeImmediately", w, inputResolver)
  /\ Returns
  /\ UNCHANGED <<remotes, hist>>

\* the retry push returns; its failure is reported, nothing is retried
PushRetryReturns ==
  /\ pc = "push2"
  /\ \E pushResult \in PushResults, rejects \in BOOLEAN :
       IF ~pushResult.success
       THEN Exit("pushFailed", "open", w, inputResolver)
       ELSE IF rejects   \* trackPush()
       THEN Caught(w, inputResolver)
       ELSE Exit("success", "closeImmediately", w, inputResolver)
  /\ Returns
  /\ UNCHANGED <<remotes, hist>>

\* ------------------------------------------ pull workflow (runPullWorkflow)
\* Step 2: without a repository the pull workflow stops
PullDetectRepositoryReturns ==
  /\ pc = "detectRepository"
  /\ wf = "pull"
  /\ \E found \in BOOLEAN :
       IF found
       THEN Cont("getStatus", {}, w, inputResolver)
       ELSE Exit("noRepository", "open", w, inputResolver)
  /\ Returns
  /\ UNCHANGED <<remotes, hist>>

\* a gate that lets a dirty tree through
DirtyTree_Never(success, hasChanges) == FALSE

\* Step 3, the clean-tree gate: statusResult.success && hasChanges
DirtyTree(success, hasChanges) == success /\ hasChanges

PullGetStatusReturns ==
  /\ pc = "getStatus"
  /\ wf = "pull"
  /\ \E success \in BOOLEAN, hasChanges \in BOOLEAN :
       IF DirtyTree(success, hasChanges)
       THEN Exit("dirtyTree", "open",
                 [w EXCEPT !.statusSeen = StatusSeen(success, hasChanges)], inputResolver)
       ELSE Cont("getCurrentBranch", {},
                 [w EXCEPT !.statusSeen = StatusSeen(success, hasChanges)], inputResolver)
  /\ Returns
  /\ UNCHANGED <<remotes, hist>>

\* Step 4: currentBranch = branchResult.data || 'main'
PullGetCurrentBranchReturns ==
  /\ pc = "getCurrentBranch"
  /\ wf = "pull"
  /\ Cont("getRemotes", {}, [w EXCEPT !.currentBranch = MainBranch], inputResolver)
  /\ Returns
  /\ UNCHANGED <<remotes, hist>>

\* the default index of the remote menu
DefaultIndex(remoteNames) ==
  IF IndexOf(remoteNames, cfg.defaultRemote) >= 0
  THEN IndexOf(remoteNames, cfg.defaultRemote)
  ELSE 0

\* Steps 5 to 7: getRemotes() returns; one remote is taken as it is, several
\* are offered in a menu; then the fetch
GetRemotesReturns ==
  /\ pc = "getRemotes"
  /\ \E success \in BOOLEAN :
       LET remoteNames == RemoteSeq(remotes) IN
       IF ~success \/ Len(remoteNames) = 0
       THEN Exit("noRemote", "open", w, inputResolver)
       ELSE IF Len(remoteNames) > 1
       THEN Cont("promptSelect", NumString(DefaultIndex(remoteNames) + 1),
                 [w EXCEPT !.remoteNames = remoteNames, !.selectedRemote = cfg.defaultRemote],
                 inputResolver)
       ELSE Cont("fetch", {},
                 [w EXCEPT !.remoteNames = remoteNames, !.selectedRemote = remoteNames[1]],
                 inputResolver)
  /\ Returns
  /\ UNCHANGED <<remotes, hist>>

\* Step 6: the menu is answered
EnterSelect ==
  /\ pc = "promptSelect"
  /\ Entered
  /\ Cont("fetch", {},
          [w EXCEPT !.selectedRemote = Select(Answer, w.remoteNames, DefaultIndex(w.remoteNames))],
          ClearedResolver)
  /\ UNCHANGED <<remotes, hist>>

\* a test that lets a failed fetch through
FetchFailed_Never(success) == FALSE

\* Step 7: if (!fetchResult.success)
FetchFailed(success) == ~success

\* Steps 7 and 8: fetch() returns
FetchReturns ==
  /\ pc = "fetch"
  /\ \E success \in BOOLEAN :
       /\ hist' = [hist EXCEPT !.fetch = IF success THEN "ok" ELSE "failed"]
       /\ IF FetchFailed(success)
          THEN Exit("fetchFailed", "open", w, inputResolver)
          ELSE Cont("promptPullBranch", w.currentBranch, w, inputResolver)
  /\ Returns
  /\ UNCHANGED remotes

\* Steps 8 and 9: the branch to pull is entered
EnterPullBranch ==
  /\ pc = "promptPullBranch"
  /\ Entered
  /\ Cont("promptConfirmPull", HintYes, [w EXCEPT !.pullBranch = Answer], ClearedResolver)
  /\ UNCHANGED <<remotes, hist>>

\* Steps 9 and 10: the confirmation is answered
EnterConfirmPull ==
  /\ pc = "promptConfirmPull"
  /\ Entered
  /\ IF ~Confirm(Answer, TRUE)
     THEN Exit("cancelled", "close", w, ClearedResolver)
     ELSE Cont("pull1", PullFlags(FALSE, FALSE), w, ClearedResolver)
  /\ UNCHANGED <<remotes, hist>>

\* Step 10: the plain pull returns
PullPullReturns ==
  /\ pc = "pull1"
  /\ wf = "pull"
  /\ \E pullResult \in PullResults, rejects \in BOOLEAN :
       /\ hist' = [hist EXCEPT !.pulls = Append(@, pullResult)]
       /\ IF IsUnrelated(pullResult)
          THEN Cont("pull2", PullFlags(FALSE, TRUE), w, inputResolver)
          ELSE AfterPull(pullResult, "hasUpstream", {}, rejects)
  /\ Returns
  /\ UNCHANGED remotes

\* a retry that is repeated for as long as the histories are unrelated
PullPullRetryReturns_Again ==
  /\ pc = "pull2"
  /\ wf = "pull"
  /\ \E pullResult \in PullResults, rejects \in BOOLEAN :
       /\ hist' = [hist EXCEPT !.pulls = Append(@, pullResult)]
       /\ IF IsUnrelated(pullResult)
          THEN Cont("pull2", PullFlags(FALSE, TRUE), w, inputResolver)
          ELSE AfterPull(pullResult, "hasUpstream", {}, rejects)
  /\ Returns
  /\ UNCHANGED remotes

\* Step 10: the pull with --allow-unrelated-histories returns; it is not
\* repeated
PullPullRetryReturns ==
  /\ pc = "pull2"
  /\ wf = "pull"
  /\ \E pullResult \in PullResults, rejects \in BOOLEAN :
       /\ hist' = [hist EXCEPT !.pulls = Append(@, pullResult)]
       /\ AfterPull(pullResult, "hasUpstream", {}, rejects)
  /\ Returns
  /\ UNCHANGED remotes

\* analyzeGitError() returns; the conflict kind was taken from the error text
PullAnalyzeReturns ==
  /\ pc = "analyzeGitError"
  /\ wf = "pull"
  /\ \E aiAnalysis \in Analyses, rejects \in BOOLEAN :
       LET conflictType == DetectConflictType(w.errorText) IN
       /\ hist' = [hist EXCEPT
                     !.kind = IF conflictType # NULL THEN "conflict" ELSE "pullFailed",
                     !.body = ReportBody(aiAnalysis), !.analysis = aiAnalysis]
       /\ IF conflictType # NULL
          THEN IF rejects   \* executeCommand('workbench.view.scm')
               THEN Caught(w, inputResolver)
               ELSE Exit("conflict", "open", w, inputResolver)
          ELSE Exit("pullFailed", "open", w, inputResolver)
  /\ Returns
  /\ UNCHANGED remotes

\* Step 11: hasUpstream() returns and the local commits are pushed
PullHasUpstreamReturns ==
  /\ pc = "hasUpstream"
  /\ wf = "pull"
  /\ \E upstreamSet \in BOOLEAN :
       Cont("push", PushFlags(~upstreamSet), w, inputResolver)
  /\ Returns
  /\ UNCHANGED <<remotes, hist>>

\* a test that finds no push up to date
UpToDate_Never(pushResult) == FALSE

\* Step 11: pushResult.error?.includes('Everything up-to-date')
UpToDate(pushResult) == Includes(pushResult.error, <<"Everything", "up-to-date">>)

\* Step 11: the push returns; 'Everything up-to-date' is no error
PullPushReturns ==
  /\ pc = "push"
  /\ \E pushResult \in PushResults, rejects \in BOOLEAN :
       /\ hist' = [hist EXCEPT !.pushes = Append(@, pushResult)]
       /\ IF pushResult.success /\ rejects   \* trackPush()
          THEN Caught(w, inputResolver)
          ELSE IF pushResult.success \/ UpToDate(pushResult)
          THEN Exit("success", "closeImmediately", w, inputResolver)
          ELSE Exit("pushFailed", "open", w, inputResolver)
  /\ Returns
  /\ UNCHANGED remotes

\* ---------------------------------------------------------- specification
Next ==
  \/ GitInstalledReturns
  \/ DetectRepositoryReturns
  \/ EnterRepoUrl
  \/ InitRepositoryReturns
  \/ AddRemoteInitReturns
  \/ GetCurrentBranchReturns
  \/ GetStatusReturns
  \/ EnterBranch
  \/ ListBranchesReturns
  \/ GetDiffContextReturns
  \/ GenerateReturns
  \/ EnterMessage
  \/ HasRemote1Returns
  \/ EnterRemoteUrl
  \/ AddRemoteReturns
  \/ EnterConfirm
  \/ StageAllReturns
  \/ CommitReturns
  \/ CreateBranchReturns
  \/ CheckoutBranchReturns
  \/ HasRemote2Returns
  \/ HasUpstreamReturns
  \/ PushReturns
  \/ PullReturns
  \/ PullRetryReturns
  \/ AnalyzeReturns
  \/ PushRetryReturns
  \/ PullDetectRepositoryReturns
  \/ PullGetStatusReturns
  \/ PullGetCurrentBranchReturns
  \/ GetRemotesReturns
  \/ EnterSelect
  \/ FetchReturns
  \/ EnterPullBranch
  \/ EnterConfirmPull
  \/ PullPullReturns
  \/ PullPullRetryReturns
  \/ PullAnalyzeReturns
  \/ PullHasUpstreamReturns
  \/ PullPushReturns
  \/ EnterIdle
  \/ HandleChar
  \/ HandleBackspace
  \/ HandleCtrlC
  \/ CloseTimer
  \/ CloseImmediatelyTimer

Spec == Init /\ [][Next]_vars

\* ------------------------------------- automatic commit (AutoCommitManager)
\* paths of saved documents
Files == {"a", "b"}

\* a run of executeAutoCommit that has not been triggered
IdleRun == [pc |-> "idle", ops |-> << >>, latched |-> FALSE, message |-> "none",
            exit |-> "none"]

\* getAutoSaveConfig() and the key test on getAIProviderConfig()
AutoSaveConfigs ==
  [enabled : BOOLEAN, pushAfterCommit : BOOLEAN, generateAiMessage : BOOLEAN,
   aiKey : BOOLEAN]

\* the manager after getInstance() and initialize()
NewManager(config) ==
  [active |-> TRUE, config |-> config, isCommitting |-> FALSE, pendingChanges |-> {},
   debounceTimer |-> FALSE, started |-> 0, runs |-> [i \in 1..MaxRuns |-> IdleRun]]

\* no workflow command is running: the session variables keep these values
NoWorkflow ==
  /\ cfg = [quickMode |-> FALSE, autoStageAll |-> TRUE, pushAfterCommit |-> FALSE,
            aiValid |-> FALSE, defaultRemote |-> "origin"]
  /\ remotes = {}
  /\ pc = "ended"
  /\ w = W0
  /\ currentInput = Empty
  /\ inputResolver = NoResolver
  /\ isRunning = FALSE
  /\ terminal = FALSE
  /\ timers = {}
  /\ gitLog = << >>
  /\ promptLog = << >>
  /\ resolved = 0
  /\ ctrlC = FALSE
  /\ outcome = "none"
  /\ hist = NoHist

InitAuto ==
  /\ wf = "auto"
  /\ NoWorkflow
  /\ \E config \in AutoSaveConfigs : mgr = NewManager(config)
  /\ call = NoCall

\* runs between the latch being set and the finally block
InFlight(m) == {i \in 1..MaxRuns : m.runs[i].pc \notin {"idle", "dropped", "done"}}

\* a guard that never sees the latch
Latched_Never(m) == FALSE

\* executeAutoCommit: this.isCommitting
Latched(m) == m.isCommitting

\* run i goes on to await the call op
AutoCall(m, i, op) ==
  [m EXCEPT !.runs[i].pc = op, !.runs[i].ops = Append(@, op)]

\* run i leaves through the finally block: this.isCommitting = false
AutoFinally(m, i, exit) ==
  [m EXCEPT !.isCommitting = FALSE, !.runs[i].pc = "done", !.runs[i].exit = exit]

\* the step of run i when the awaited call op returns: the catch block when
\* it throws, otherwise next
AutoReturns(op, i, throws, next) ==
  /\ mgr.active
  /\ mgr.runs[i].pc = op
  /\ mgr' = IF throws THEN AutoFinally(mgr, i, "thrown") ELSE next
  /\ UNCHANGED <<wvars, call>>

\* onDocumentSave and scheduleCommit: the path is recorded, the timer re-armed
OnDocumentSave ==
  /\ mgr.active
  /\ \E f \in Files, matches \in BOOLEAN :
       mgr' = IF mgr.config.enabled /\ matches
              THEN [mgr EXCEPT !.pendingChanges = @ \cup {f}, !.debounceTimer = TRUE]
              ELSE mgr
  /\ UNCHANGED <<wvars, call>>

\* the debounce timer fires: executeAutoCommit up to its first await
ManagerExecuteAutoCommit ==
  /\ mgr.active
  /\ mgr.debounceTimer
  /\ mgr.started < MaxRuns
  /\ LET i == mgr.started + 1
         m == [mgr EXCEPT !.debounceTimer = FALSE, !.started = i,
                          !.runs[i].latched = mgr.isCommitting] IN
     mgr' = IF Latched(mgr) \/ mgr.pendingChanges = {}
            THEN [m EXCEPT !.runs[i].pc = "dropped"]
            ELSE AutoCall([m EXCEPT !.isCommitting = TRUE, !.pendingChanges = {}],
                          i, "detectRepository")
  /\ UNCHANGED <<wvars, call>>

AutoDetectRepositoryReturns ==
  \E i \in 1..MaxRuns, throws \in BOOLEAN, found \in BOOLEAN :
    AutoReturns("detectRepository", i, throws,
                IF found THEN AutoCall(mgr, i, "getStatus")
                ELSE AutoFinally(mgr, i, "noRepository"))

AutoGetStatusReturns ==
  \E i \in 1..MaxRuns, throws \in BOOLEAN, success \in BOOLEAN, hasChanges \in BOOLEAN :
    AutoReturns("getStatus", i, throws,
                IF ~success \/ ~hasChanges THEN AutoFinally(mgr, i, "noChanges")
                ELSE AutoCall(mgr, i, "stageAll"))

\* the commit with the message the run has at this point
AutoToCommit(m, i, message) ==
  AutoCall([m EXCEPT !.runs[i].message = message], i, "commit")

\* the result of stageAll is not read
AutoStageAllReturns ==
  \E i \in 1..MaxRuns, throws \in BOOLEAN :
    AutoReturns("stageAll", i, throws,
                IF mgr.config.generateAiMessage /\ mgr.config.aiKey
                THEN AutoCall(mgr, i, "getDiffContext")
                ELSE AutoToCommit(mgr, i, "default"))

AutoGetDiffContextReturns ==
  \E i \in 1..MaxRuns, throws \in BOOLEAN, success \in BOOLEAN :
    AutoReturns("getDiffContext", i, throws,
                IF success THEN AutoCall(mgr, i, "generateCommitMessage")
                ELSE AutoToCommit(mgr, i, "default"))

AutoGenerateReturns ==
  \E i \in 1..MaxRuns, throws \in BOOLEAN, success \in BOOLEAN :
    AutoReturns("generateCommitMessage", i, throws,
                AutoToCommit(mgr, i, IF success THEN "ai" ELSE "default"))

AutoCommitReturns ==
  \E i \in 1..MaxRuns, throws \in BOOLEAN, success \in BOOLEAN :
    AutoReturns("commit", i, throws,
                IF ~success THEN AutoFinally(mgr, i, "commitFailed")
                ELSE IF mgr.config.pushAfterCommit THEN AutoCall(mgr, i, "hasUpstream")
                ELSE AutoFinally(mgr, i, "success"))

AutoHasUpstreamReturns ==
  \E i \in 1..MaxRuns, throws \in BOOLEAN :
    AutoReturns("hasUpstream", i, throws, AutoCall(mgr, i, "push"))

\* the result of push only decides whether the push is counted
AutoPushReturns ==
  \E i \in 1..MaxRuns, throws \in BOOLEAN :
    AutoReturns("push", i, throws, AutoFinally(mgr, i, "success"))

NextAuto ==
  \/ OnDocumentSave
  \/ ManagerExecuteAutoCommit
  \/ AutoDetectRepositoryReturns
  \/ AutoGetStatusReturns
  \/ AutoStageAllReturns
  \/ AutoGetDiffContextReturns
  \/ AutoGenerateReturns
  \/ AutoCommitReturns
  \/ AutoHasUpstreamReturns
  \/ AutoPushReturns

SpecAuto == InitAuto /\ [][NextAuto]_vars

\* ------------------------------------------------ calls of one function
ConfirmChars == {"y", "Y", "e", "E", "s", "S", "n", "N", "/", Space}
SelectChars == {"0", "1", "2", "3", "4", "a", "+", "-", Space}

\* the lines of at most MaxLine characters
Lines(chars) == UNION {[1..k -> chars] : k \in 0..MaxLine}

\* the menus select() is called with
OptionLists == {<<"a", "b">>, <<"a", "b", "c">>}

\* one line of `git status --porcelain`: the two status columns, a space, the path
StatusLines ==
  {<<xy[1], xy[2], Space, path>> :
     xy \in {<<Space, "M">>, <<"M", Space>>, <<"M", "M">>, <<"A", Space>>, <<"?", "?">>},
     path \in {"f", "g"}}

\* the outputs of at most MaxStatusLines lines
StatusOutputs == UNION {[1..k -> StatusLines] : k \in 0..MaxStatusLines}

\* executeGitWithArgs: stdout.trim(), on the output as a sequence of lines
TrimOutput(lines) ==
  IF lines = << >> THEN lines
  ELSE LET first == [lines EXCEPT ![1] = TrimLeft(@)] IN
       [first EXCEPT ![Len(first)] = TrimRight(@)]

\* line[i] of a JavaScript string (0-based), undefined past its end
CharAt(line, i) == IF i + 1 <= Len(line) THEN line[i + 1] ELSE NULL

\* line.substring(n)
Substring(line, n) == SubSeq(line, n + 1, Len(line))

\* a working-tree column that is never reported
InWorkTree_Never(workTreeStatus) == FALSE

\* getStatus: the index column names a staged change
InIndex(indexStatus) == indexStatus # Space /\ indexStatus # "?"

\* getStatus: the working-tree column names an unstaged change
InWorkTree(workTreeStatus) == workTreeStatus # Space /\ workTreeStatus # "?"

\* getStatus: the three lists of the lines from position i on
RECURSIVE ParseStatus(_, _, _)
ParseStatus(lines, i, acc) ==
  IF i > Len(lines) THEN acc
  ELSE LET line == lines[i]
           indexStatus == CharAt(line, 0)
           workTreeStatus == CharAt(line, 1)
           filename == Substring(line, 3) IN
       IF Trim(line) = Empty THEN ParseStatus(lines, i + 1, acc)
       ELSE IF indexStatus = "?"
       THEN ParseStatus(lines, i + 1, [acc EXCEPT !.untracked = Append(@, filename)])
       ELSE ParseStatus(lines, i + 1,
              [acc EXCEPT
                 !.staged = IF InIndex(indexStatus) THEN Append(@, filename) ELSE @,
                 !.unstaged = IF InWorkTree(workTreeStatus)
                              THEN Append(@, filename) ELSE @])

\* a flag that forgets the untracked files
HasChanges_NoUntracked(staged, unstaged, untracked) ==
  Len(staged) > 0 \/ Len(unstaged) > 0

\* getStatus: hasChanges
HasChanges(staged, unstaged, untracked) ==
  Len(staged) > 0 \/ Len(unstaged) > 0 \/ Len(untracked) > 0

\* getStatus on a successful `git status --porcelain`
GetStatus(stdout) ==
  LET lists == ParseStatus(TrimOutput(stdout), 1,
                           [staged |-> << >>, unstaged |-> << >>, untracked |-> << >>]) IN
  [staged |-> lists.staged, unstaged |-> lists.unstaged, untracked |-> lists.untracked,
   hasChanges |-> HasChanges(lists.staged, lists.unstaged, lists.untracked)]

\* the exit codes of a child process that was launched
ExitCodes == {0, 1, 2}

\* the message of the error a failed launch is reported with
LaunchErrors == {<<"spawn git ENOENT">>}

\* `${code}` of an exit code
CodeString(code) ==
  IF code < 0 THEN <<"-">> \o NumString(-code)
  ELSE IF code = 0 THEN <<"0">> ELSE NumString(code)

\* a promise whose every resolve() takes effect
Resolve_Last(c, value) == [c EXCEPT !.done = TRUE, !.result = value]

\* new Promise((resolve) => ...): resolve() settles the promise once, a later
\* resolve() is ignored
Resolve(c, value) == IF c.done THEN c ELSE [c EXCEPT !.done = TRUE, !.result = value]

\* executeGitWithArgs: the handler of 'close'
OnClose(code, stdout, stderr) ==
  IF code = 0 THEN [success |-> TRUE, data |-> Trim(stdout)]
  ELSE [success |-> FALSE,
        error |-> IF Trim(stderr) # Empty THEN Trim(stderr)
                  ELSE <<"Git command failed with code ">> \o CodeString(code)]

\* executeGitWithArgs: the handler of 'error'
OnError(message) ==
  [success |-> FALSE,
   error |-> IF message # Empty THEN message ELSE <<"Failed to execute git command">>]

\* executeGitWithArgs(cwd, args) has spawned the child and registered its
\* four handlers; the launch succeeds or fails
RunCalls ==
  {[fun |-> "run", done |-> FALSE, launched |-> launched, stdout |-> Empty,
    stderr |-> Empty, events |-> << >>, result |-> NULL] : launched \in BOOLEAN}

\* the characters of a commit message ("backtick" is the character `)
MessageChars == {"a", "\"", "backtick", "$", "\\", "\n", Space}

\* the two runners of the source: spawn without a shell, exec through the shell
Builds == {"spawn", "exec"}

\* String.prototype.replace(/c/g, rep)
RECURSIVE ReplaceAll(_, _, _)
ReplaceAll(s, c, rep) ==
  IF s = Empty THEN Empty
  ELSE (IF Head(s) = c THEN rep ELSE <<Head(s)>>) \o ReplaceAll(Tail(s), c, rep)

\* commit (exec): escapedMessage
Escape(message) ==
  Trim(ReplaceAll(ReplaceAll(ReplaceAll(ReplaceAll(ReplaceAll(message,
    "\\", <<"\\", "\\">>), "\"", <<"\\", "\"">>), "backtick", <<"\\", "backtick">>),
    "$", <<"\\", "$">>), "\n", <<Space>>))

\* the words the shell makes of a command line from position i on: white
\* space separates words, double quotes group, a backslash quotes the next
\* character (inside double quotes only \ " ` $ and the line feed), and an
\* unquoted $ or ` starts a substitution
RECURSIVE ShellWords(_, _, _, _, _, _)
ShellWords(s, i, quoted, word, open, acc) ==
  IF i > Len(s) THEN (IF open THEN Append(acc, word) ELSE acc)
  ELSE LET c == s[i]
           next == IF i < Len(s) THEN s[i + 1] ELSE NULL IN
       IF c = "\\" /\ next = "\n" THEN ShellWords(s, i + 2, quoted, word, open, acc)
       ELSE IF c = "\\" /\ next # NULL /\ (~quoted \/ next \in {"\\", "\"", "backtick", "$"})
       THEN ShellWords(s, i + 2, quoted, Append(word, next), TRUE, acc)
       ELSE IF c = "\"" THEN ShellWords(s, i + 1, ~quoted, word, TRUE, acc)
       ELSE IF c \in {"$", "backtick"}
       THEN ShellWords(s, i + 1, quoted, Append(word, "substitution"), TRUE, acc)
       ELSE IF c \in WhiteSpace /\ ~quoted
       THEN ShellWords(s, i + 1, quoted, Empty, FALSE,
                       IF open THEN Append(acc, word) ELSE acc)
       ELSE ShellWords(s, i + 1, quoted, Append(word, c), TRUE, acc)

\* executeGit (exec): the arguments git is started with by the shell that
\* runs `git ${args}`
ExecArgs(args) == ShellWords(args, 1, FALSE, Empty, FALSE, << >>)

\* commit (spawn): the argument vector, none when the message is blank
CommitSpawn(message) ==
  IF Trim(message) = Empty THEN [invoked |-> FALSE, args |-> << >>]
  ELSE [invoked |-> TRUE, args |-> <<<<"commit">>, <<"-m">>, Trim(message)>>]

\* commit (exec): the argument vector, none when the message is blank
CommitExec(message) ==
  IF Trim(message) = Empty THEN [invoked |-> FALSE, args |-> << >>]
  ELSE [invoked |-> TRUE,
        args |-> ExecArgs(<<"commit", Space, "-m", Space, "\"">> \o Escape(message)
                            \o <<"\"">>)]

\* the characters of a branch name
NameChars == {"b", Space, "\n", "~", "^", ":", "?", "*", "[", "]", "\\", "\"", "'"}

\* the names of at most MaxName characters
Names == UNION {[1..k -> NameChars] : k \in 0..MaxName}

\* position of the first q in s from position i on, 0 if there is none
RECURSIVE Closing(_, _, _)
Closing(s, i, q) ==
  IF i > Len(s) THEN 0 ELSE IF s[i] = q THEN i ELSE Closing(s, i + 1, q)

\* executeGit: args.match(/(?:[^\s"']+|"[^"]*"|'[^']*')+/g) from position i
\* on, with the match in progress in word
RECURSIVE MatchArgs(_, _, _, _)
MatchArgs(s, i, word, acc) ==
  LET flushed == IF word = Empty THEN acc ELSE Append(acc, word) IN
  IF i > Len(s) THEN flushed
  ELSE IF s[i] \in {"\"", "'"}
  THEN LET j == Closing(s, i + 1, s[i]) IN
       IF j = 0 THEN MatchArgs(s, i + 1, Empty, flushed)
       ELSE MatchArgs(s, j + 1, word \o SubSeq(s, i, j), acc)
  ELSE IF s[i] \in WhiteSpace THEN MatchArgs(s, i + 1, Empty, flushed)
  ELSE MatchArgs(s, i + 1, Append(word, s[i]), acc)

\* executeGit: arg.replace(/^q|q$/g, '')
Unquote(arg, q) ==
  LET a == IF arg # Empty /\ Head(arg) = q THEN Tail(arg) ELSE arg IN
  IF a # Empty /\ a[Len(a)] = q THEN SubSeq(a, 1, Len(a) - 1) ELSE a

\* executeGit: cleanArgs
CleanArgs(args) ==
  LET argsArray == MatchArgs(args, 1, Empty, << >>) IN
  [k \in 1..Len(argsArray) |-> Unquote(Unquote(argsArray[k], "\""), "'")]

\* createBranch(cwd, branch) when git answers with gitResult: the result and
\* the argument vectors git was started with
CreateBranch(branch, gitResult) ==
  IF ~ValidBranchName(branch)
  THEN [success |-> FALSE,
        error |-> IF Trim(branch) = Empty THEN <<"Branch name cannot be empty">>
                  ELSE <<"Branch name contains invalid characters (spaces or special chars)">>,
        invocations |-> << >>]
  ELSE [success |-> gitResult.success,
        error |-> IF gitResult.success THEN Empty
                  ELSE IF gitResult.error # Empty THEN gitResult.error
                  ELSE <<"Failed to create branch: ">> \o branch,
        invocations |-> <<CleanArgs(<<"checkout", Space, "-b", Space, "\"">> \o branch
                                      \o <<"\"">>)>>]

\* the three reads of getDiffContext, in the order they are started
Reads == <<"status", "diff", "branch">>

\* result.error, undefined (falsy) on a result without one
ErrorOf(result) == IF "error" \in DOMAIN result THEN result.error ELSE Empty

\* result.data || fallback
DataOr(result, fallback) ==
  IF "data" \in DOMAIN result /\ result.data # Empty THEN result.data ELSE fallback

\* the results of getStatus
StatusResults ==
  {[success |-> TRUE, data |-> GetStatus(stdout)] :
     stdout \in {<< >>, <<<<"M", "M", Space, "f">>>>}}
    \cup {[success |-> FALSE, error |-> <<"fatal">>]}

\* the results of `git diff --cached` and `git diff`
DiffResults ==
  {[success |-> TRUE, data |-> Empty], [success |-> TRUE, data |-> <<"d">>],
   [success |-> FALSE, error |-> <<"fatal">>]}

\* the results of getCurrentBranch
BranchResults ==
  {[success |-> TRUE, data |-> MainBranch],
   [success |-> TRUE, data |-> <<"HEAD detached at ", "abc">>],
   [success |-> FALSE, error |-> <<"Unable to determine current branch">>]}

\* getAllDiff: the two diffs joined by a line feed, empty ones left out
GetAllDiff(stagedResult, unstagedResult) ==
  IF ~stagedResult.success \/ ~unstagedResult.success
  THEN [success |-> FALSE,
        error |-> IF ErrorOf(stagedResult) # Empty THEN ErrorOf(stagedResult)
                  ELSE ErrorOf(unstagedResult)]
  ELSE [success |-> TRUE,
        data |-> IF stagedResult.data = Empty THEN unstagedResult.data
                 ELSE IF unstagedResult.data = Empty THEN stagedResult.data
                 ELSE stagedResult.data \o <<"\n">> \o unstagedResult.data]

\* a failure test that looks at the status alone
AnyFailed_StatusOnly(statusResult, diffResult, branchResult) == ~statusResult.success

\* getDiffContext: the test made on the joined results
AnyFailed(statusResult, diffResult, branchResult) ==
  ~statusResult.success \/ ~diffResult.success \/ ~branchResult.success

\* getDiffContext: what is returned once Promise.all has resolved to values
DiffContext(values) ==
  LET statusResult == values.status
      diffResult == values.diff
      branchResult == values.branch IN
  IF AnyFailed(statusResult, diffResult, branchResult)
  THEN [success |-> FALSE,
        error |-> IF ErrorOf(statusResult) # Empty THEN ErrorOf(statusResult)
                  ELSE IF ErrorOf(diffResult) # Empty THEN ErrorOf(diffResult)
                  ELSE ErrorOf(branchResult)]
  ELSE LET status == statusResult.data IN
       [success |-> TRUE,
        data |-> [status |-> status,
                  diff |-> DataOr(diffResult, Empty),
                  branch |-> DataOr(branchResult, <<"unknown">>),
                  filesChanged |-> Len(status.staged) + Len(status.unstaged)
                                     + Len(status.untracked)]]

\* getDiffContext(cwd) has started its three reads; plan is what each of them
\* will find
DiffContextCalls ==
  {[fun |-> "getDiffContext", done |-> FALSE,
    plan |-> [status |-> st, staged |-> sd, unstaged |-> ud, branch |-> br],
    order |-> << >>, values |-> [status |-> NULL, diff |-> NULL, branch |-> NULL],
    result |-> NULL] :
     st \in StatusResults, sd \in DiffResults, ud \in DiffResults, br \in BranchResults}

\* the characters of a value handed to an operation
ArgChars == {"b", Space, "\"", "'", "backtick", "$"}

\* the values of at most MaxName characters, the empty one left out
ArgValues == UNION {[1..k -> ArgChars] : k \in 1..MaxName}

\* the operations that build their command line around a caller's value
ExecOps == {"checkoutBranch", "addRemote", "setRemoteUrl", "stageFiles", "push", "fetch"}

\* "${value}"
Quoted(value) == <<"\"">> \o value \o <<"\"">>

\* the args string each operation hands to executeGit; the remote of
\* addRemote, setRemoteUrl and push is origin, stageFiles has one file and
\* push has no upstream flag
CommandLine(op, value) ==
  CASE op = "checkoutBranch" -> <<"checkout", Space>> \o Quoted(value)
    [] op = "addRemote" ->
         <<"remote", Space, "add", Space>> \o Quoted(<<"origin">>) \o <<Space>> \o Quoted(value)
    [] op = "setRemoteUrl" ->
         <<"remote", Space, "set-url", Space>> \o Quoted(<<"origin">>) \o <<Space>>
           \o Quoted(value)
    [] op = "stageFiles" -> <<"add", Space>> \o Quoted(value)
    [] op = "push" -> <<"push", Space, "origin", Space>> \o value
    [] op = "fetch" -> <<"fetch", Space>> \o value

\* the words of an error text
Words == {"rebase", "Rebase", "conflict", "CONFLICT", "merge", "could", "not", "apply",
          "would", "be", "overwritten", "fatal"}

\* the error texts of at most MaxWords words
ErrorTexts == UNION {[1..k -> Words] : k \in 0..MaxWords}

\* getConflictInstructions: the first line of the script and its command
GetConflictInstructions(type) ==
  CASE type = "rebase" ->
         <<"A rebase conflict occurred. Your changes conflict with remote commits.",
           "git rebase --continue">>
    [] type = "merge" ->
         <<"A merge conflict occurred. Your changes conflict with remote commits.",
           "Complete the merge by committing">>
    [] type = "pull" ->
         <<"Your local changes conflict with remote changes.",
           "Commit or stash your local changes first">>

\* a function is about to be called with arguments drawn from the sets above
\* getCurrentBranch: what the two rev-parse queries can give; a failed
\* query carries no data
SymbolicNames == {Empty, <<"HEAD">>, <<"main">>}
ShortHashes == {Empty, <<"abc1234">>}
QueryResults(datas) ==
  {[success |-> TRUE, data |-> d] : d \in datas} \cup {[success |-> FALSE, data |-> Empty]}

\* getCurrentBranch: the symbolic name when the first query gives one,
\* otherwise the text made from the short hash
GetCurrentBranch(result, hashResult) ==
  IF result.success /\ result.data # Empty
  THEN result
  ELSE IF hashResult.success
  THEN [success |-> TRUE, data |-> <<"HEAD", "detached", "at">> \o hashResult.data]
  ELSE [success |-> FALSE, data |-> Empty]

GetCurrentBranchCall ==
  /\ call.fun = "getCurrentBranch"
  /\ ~call.done
  /\ call' = [call EXCEPT !.done = TRUE,
                          !.value = GetCurrentBranch(call.result, call.hashResult)]
  /\ UNCHANGED <<wvars, mgr>>

InitCalls ==
  /\ wf = "call"
  /\ NoWorkflow
  /\ mgr = NoManager
  /\ \/ \E line \in Lines(ConfirmChars), defaultYes \in BOOLEAN :
          call = [fun |-> "confirm", done |-> FALSE, line |-> line,
                  defaultYes |-> defaultYes]
     \/ \E line \in Lines(SelectChars), options \in OptionLists :
          \E defaultIndex \in 0..(Len(options) - 1) :
            call = [fun |-> "select", done |-> FALSE, line |-> line, options |-> options,
                    defaultIndex |-> defaultIndex]
     \/ \E stdout \in StatusOutputs :
          call = [fun |-> "getStatus", done |-> FALSE, stdout |-> stdout]
     \/ call \in RunCalls
     \/ \E errorText \in ErrorTexts :
          call = [fun |-> "isConflict", done |-> FALSE, error |-> errorText]
     \/ \E error \in ErrorTexts :
          call = [fun |-> "detectConflictType", done |-> FALSE, error |-> error]
     \/ \E op \in ExecOps, value \in ArgValues :
          call = [fun |-> "executeGit", done |-> FALSE, op |-> op, value |-> value]
     \/ call \in DiffContextCalls
     \/ \E branch \in Names :
          call = [fun |-> "createBranch", done |-> FALSE, branch |-> branch]
     \/ \E result \in QueryResults(SymbolicNames), hashResult \in QueryResults(ShortHashes) :
          call = [fun |-> "getCurrentBranch", done |-> FALSE, result |-> result,
                  hashResult |-> hashResult, value |-> NULL]
     \/ \E message \in Lines(MessageChars), build \in Builds :
          call = [fun |-> "commit", done |-> FALSE, build |-> build, message |-> message]

\* confirm(promptText, defaultYes) when the user enters call.line
ConfirmCall ==
  /\ call.fun = "confirm"
  /\ ~call.done
  /\ LET defaultStr == IF call.defaultYes THEN HintYes ELSE HintNo IN
     call' = [fun |-> "confirm", done |-> TRUE, line |-> call.line,
              defaultYes |-> call.defaultYes, prompts |-> 1,
              result |-> Confirm(ResolveInput(call.line, defaultStr), call.defaultYes)]
  /\ UNCHANGED <<wvars, mgr>>

\* select(promptText, options, defaultIndex) when the user enters call.line
SelectCall ==
  /\ call.fun = "select"
  /\ ~call.done
  /\ call' = [fun |-> "select", done |-> TRUE, line |-> call.line,
              options |-> call.options, defaultIndex |-> call.defaultIndex, prompts |-> 1,
              result |-> Select(ResolveInput(call.line, NumString(call.defaultIndex + 1)),
                                call.options, call.defaultIndex)]
  /\ UNCHANGED <<wvars, mgr>>

\* getStatus(cwd) when the tool prints call.stdout and exits with 0
GetStatusCall ==
  /\ call.fun = "getStatus"
  /\ ~call.done
  /\ call' = [fun |-> "getStatus", done |-> TRUE, stdout |-> call.stdout,
              result |-> GetStatus(call.stdout)]
  /\ UNCHANGED <<wvars, mgr>>

\* child.stdout.on('data'): a chunk of the running child's output
StdoutData ==
  /\ call.fun = "run"
  /\ call.launched
  /\ call.events = << >>
  /\ Len(call.stdout) < MaxLine
  /\ \E c \in Chars : call' = [call EXCEPT !.stdout = Append(@, c)]
  /\ UNCHANGED <<wvars, mgr>>

\* child.stderr.on('data')
StderrData ==
  /\ call.fun = "run"
  /\ call.launched
  /\ call.events = << >>
  /\ Len(call.stderr) < MaxLine
  /\ \E c \in Chars : call' = [call EXCEPT !.stderr = Append(@, c)]
  /\ UNCHANGED <<wvars, mgr>>

\* child.on('error'): the child could not be launched
ErrorEvent ==
  /\ call.fun = "run"
  /\ ~call.launched
  /\ call.events = << >>
  /\ \E message \in LaunchErrors :
       call' = Resolve([call EXCEPT !.events = Append(@, [kind |-> "error", code |-> 0,
                                                          message |-> message])],
                       OnError(message))
  /\ UNCHANGED <<wvars, mgr>>

\* child.on('close'): the child has exited and its streams are closed, or the
\* failed launch is closed with a negative code after its 'error'
CloseEvent ==
  /\ call.fun = "run"
  /\ \A i \in 1..Len(call.events) : call.events[i].kind # "close"
  /\ \E code \in ExitCodes \cup {-2} :
       /\ IF call.launched THEN code \in ExitCodes
          ELSE code = -2 /\ call.events # << >>
       /\ call' = Resolve([call EXCEPT !.events = Append(@, [kind |-> "close",
                                                             code |-> code,
                                                             message |-> Empty])],
                          OnClose(code, call.stdout, call.stderr))
  /\ UNCHANGED <<wvars, mgr>>

\* commit(cwd, message) up to the start of git
CommitCall ==
  /\ call.fun = "commit"
  /\ ~call.done
  /\ call' = [fun |-> "commit", done |-> TRUE, build |-> call.build,
              message |-> call.message,
              result |-> IF call.build = "spawn" THEN CommitSpawn(call.message)
                         ELSE CommitExec(call.message)]
  /\ UNCHANGED <<wvars, mgr>>

\* createBranch(cwd, branch) with git's answer to `checkout -b`, if it is asked
CreateBranchCall ==
  /\ call.fun = "createBranch"
  /\ ~call.done
  /\ \E gitResult \in {Ok, Fail(Empty), Fail(<<"fatal">>)} :
       call' = [fun |-> "createBranch", done |-> TRUE, branch |-> call.branch,
                result |-> CreateBranch(call.branch, gitResult)]
  /\ UNCHANGED <<wvars, mgr>>

\* Promise.all: one of the reads settles and fills its place of the values;
\* the last one to settle resolves the join and getDiffContext returns
ReadSettles ==
  /\ call.fun = "getDiffContext"
  /\ \E k \in 1..Len(Reads) :
       /\ \A i \in 1..Len(call.order) : call.order[i] # Reads[k]
       /\ LET value == CASE Reads[k] = "status" -> call.plan.status
                         [] Reads[k] = "diff" ->
                              GetAllDiff(call.plan.staged, call.plan.unstaged)
                         [] Reads[k] = "branch" -> call.plan.branch
              values == [call.values EXCEPT ![Reads[k]] = value]
              order == Append(call.order, Reads[k]) IN
          call' = [call EXCEPT !.values = values, !.order = order,
                               !.done = Len(order) = Len(Reads),
                               !.result = IF Len(order) = Len(Reads)
                                          THEN DiffContext(values) ELSE NULL]
  /\ UNCHANGED <<wvars, mgr>>

\* one of the operations calls executeGit(cwd, args), which starts git with
\* cleanArgs
ExecuteGitCall ==
  /\ call.fun = "executeGit"
  /\ ~call.done
  /\ call' = [fun |-> "executeGit", done |-> TRUE, op |-> call.op, value |-> call.value,
              result |-> [args |-> CleanArgs(CommandLine(call.op, call.value))]]
  /\ UNCHANGED <<wvars, mgr>>

\* runPullWorkflow: the failed pull is classified and, for a conflict, its
\* instructions are chosen
DetectConflictTypeCall ==
  /\ call.fun = "detectConflictType"
  /\ ~call.done
  /\ LET conflictType == DetectConflictType(call.error) IN
     call' = [fun |-> "detectConflictType", done |-> TRUE, error |-> call.error,
              result |-> [conflictType |-> conflictType,
                          instructions |-> IF conflictType # NULL
                                           THEN GetConflictInstructions(conflictType)
                                           ELSE << >>]]
  /\ UNCHANGED <<wvars, mgr>>

\* runWorkflow: the text of the failed recovery pull is tested for a conflict
IsConflictCall ==
  /\ call.fun = "isConflict"
  /\ ~call.done
  /\ call' = [fun |-> "isConflict", done |-> TRUE, error |-> call.error,
              result |-> IsConflict(call.error)]
  /\ UNCHANGED <<wvars, mgr>>

NextCalls ==
  \/ GetCurrentBranchCall
  \/ CommitCall
  \/ IsConflictCall
  \/ DetectConflictTypeCall
  \/ ExecuteGitCall
  \/ ReadSettles
  \/ CreateBranchCall
  \/ ConfirmCall
  \/ SelectCall
  \/ GetStatusCall
  \/ StdoutData
  \/ StderrData
  \/ ErrorEvent
  \/ CloseEvent

SpecCalls == InitCalls /\ [][NextCalls]_vars

\* ------------------------------------------------------------- properties
\* positions of the log at which one of the named operations was issued
OpsAt(names) == {i \in 1..Len(gitLog) : gitLog[i].op \in names}
Count(name) == Cardinality(OpsAt({name}))
Prompted(p) == \E i \in 1..Len(promptLog) : promptLog[i] = p

\* C1: in the commit workflow push is issued at most twice in a run; the second
\* push follows one recovery pull, and when it returns the run ends (success, or
\* the failure reported) with no further pull or push
C1_OneRecoveryCycle ==
  wf = "commit" =>
    /\ Count("push") <= 2
    /\ Count("push") = 2 =>
         /\ gitLog[Len(gitLog)].op = "push"
         /\ pc \in {"push2", "ended"}
         /\ \E i \in OpsAt({"pull"}) :
              \E j, k \in OpsAt({"push"}) : j < i /\ i < k
         /\ pc = "ended" => outcome \in {"success", "pushFailed", "exception"}

C1_Witness == wf = "commit" /\ Count("push") = 2 /\ outcome = "pushFailed"

\* C2: in both workflows the pull with --allow-unrelated-histories is issued
\* exactly when the first pull failed with 'unrelated histories' in its error;
\* it is the second pull, there is no third
C2_UnrelatedRetry ==
  LET allow == {i \in OpsAt({"pull"}) : "--allow-unrelated-histories" \in gitLog[i].flags}
      firstFailedUnrelated ==
        /\ hist.pulls # << >>
        /\ ~hist.pulls[1].success
        /\ Includes(hist.pulls[1].error, <<"unrelated", "histories">>)
  IN
  /\ Count("pull") <= 2
  /\ Cardinality(allow) <= 1
  /\ (allow # {}) <=> firstFailedUnrelated
  /\ Count("pull") = 2 => \E i \in allow : \E j \in OpsAt({"pull"}) : j < i

C2_Witness ==
  /\ wf = "commit"
  /\ Count("pull") = 2
  /\ Len(hist.pulls) = 2
  /\ hist.pulls[1].error = ErrUnrelated

\* C3: in the pull workflow a status that reports changes ends the run at the
\* gate: no fetch, pull or push and no prompt
C3_CleanTreeGate ==
  (wf = "pull" /\ w.statusSeen = "dirty") =>
    /\ pc = "ended"
    /\ outcome = "dirtyTree"
    /\ OpsAt({"fetch", "pull", "push"}) = {}
    /\ promptLog = << >>

C3_Witness == wf = "pull" /\ w.statusSeen = "dirty" /\ pc = "ended"

\* C4: in the commit workflow checkout and create-and-checkout are issued only
\* after the commit of the run returned success, never before stage or commit
C4_DeferredSwitch ==
  wf = "commit" =>
    /\ Cardinality(OpsAt({"checkoutBranch", "createBranch"})) <= 1
    /\ \A i \in OpsAt({"checkoutBranch", "createBranch"}) :
         /\ \E j \in OpsAt({"commit"}) : j < i
         /\ \A j \in OpsAt({"stageAll", "commit"}) : j < i
         /\ w.pushBranch # Empty
         /\ w.needsBranchSwitch

C4_Witness ==
  /\ wf = "commit"
  /\ OpsAt({"checkoutBranch"}) # {}
  /\ w.targetBranch # w.currentBranch

\* the remote prompt was answered and the remote is still not configured: the
\* line was empty or addRemote failed
RemoteDeclined ==
  /\ Prompted("promptRemoteUrl")
  /\ pc \notin {"promptRemoteUrl", "addRemote"}
  /\ cfg.defaultRemote \notin remotes

\* every push has push-after-commit enabled, the remote configured and a
\* remote listing read between the commit and the push
PushOnlyWithRemote ==
  \A i \in OpsAt({"push"}) :
    /\ cfg.pushAfterCommit
    /\ cfg.defaultRemote \in remotes
    /\ \E c \in OpsAt({"commit"}) : \E j \in OpsAt({"hasRemote"}) : c < j /\ j < i

C6_NoChangesNoop ==
  (wf = "commit" /\ w.statusSeen = "clean") =>
    /\ pc = "ended"
    /\ outcome = "noChanges"
    /\ OpsAt(Mutating) = {}
    /\ ~Prompted("promptBranch") /\ ~Prompted("promptMessage") /\ ~Prompted("promptConfirm")
    /\ ~isRunning
    /\ "close" \in timers \/ ~terminal

C6_Witness ==
  /\ wf = "commit"
  /\ w.statusSeen = "clean"
  /\ outcome = "noChanges"
  /\ ~ctrlC
  /\ "close" \in timers

\* the positions from which Step 7 is reached in quick mode
QuickGenPcs == {"getStatus", "getDiffContext", "generateCommitMessage"}

\* C7: in quick mode there is no branch prompt, no confirmation prompt, no
\* checkout and no create-branch, the commit stays on the current branch, and
\* the message prompt is issued exactly when no generated message exists
C7_QuickMode ==
  /\ []((wf = "commit" /\ cfg.quickMode) =>
          /\ ~Prompted("promptBranch")
          /\ ~Prompted("promptConfirm")
          /\ OpsAt({"checkoutBranch", "createBranch"}) = {}
          /\ w.targetBranch \in {Empty, w.currentBranch}
          /\ w.pushBranch \in {Empty, w.currentBranch}
          /\ (pc = "promptMessage" => w.commitMessage = Empty)
          /\ (~Prompted("promptMessage") /\ OpsAt({"hasRemote"}) # {})
               => w.commitMessage = AiMessage)
  /\ [][(wf = "commit" /\ cfg.quickMode) =>
          /\ (pc' = "promptMessage" /\ pc # "promptMessage") => pc \in QuickGenPcs
          /\ (pc \in QuickGenPcs /\ pc' \in {"promptMessage", "hasRemote1"})
               => (pc' = "promptMessage" <=> w'.commitMessage = Empty)]_vars

C7_Witness ==
  /\ wf = "commit"
  /\ cfg.quickMode
  /\ pc = "ended"
  /\ outcome = "success"
  /\ promptLog = << >>
  /\ Count("push") = 1

\* C8: every failure of the generator leads to the message prompt, and after a
\* failed pull every outcome of the explainer ends the run with the failure
\* reported, with the static text when there is no explanation
C8_BestEffort ==
  /\ []((outcome \in {"conflict", "pullFailed"} \/ hist.kind # "none") =>
          /\ pc = "ended"
          /\ outcome \in {hist.kind, "exception"}
          /\ hist.analysis \in Analyses
          /\ hist.analysis \in {"notConfigured", "failed"} => hist.body = "static")
  /\ [][/\ (pc = "analyzeGitError" /\ pc' # pc) =>
             (pc' = "ended" /\ hist'.kind \in {"conflict", "pullFailed"})
        /\ (/\ wf = "commit"
            /\ pc \in {"getDiffContext", "generateCommitMessage"}
            /\ pc' \notin {pc, "generateCommitMessage"}
            /\ w'.commitMessage = Empty) => pc' = "promptMessage"
        /\ (/\ wf = "commit"
            /\ ~cfg.aiValid
            /\ pc \in {"getStatus", "promptBranch", "listBranches"}
            /\ pc' \notin {"getStatus", "promptBranch", "listBranches", "ended"})
             => pc' = "promptMessage"]_vars

C8_Witness ==
  /\ wf = "commit"
  /\ cfg.quickMode
  /\ OpsAt({"generateCommitMessage"}) # {}
  /\ Prompted("promptMessage")
  /\ outcome = "pullFailed"
  /\ hist.analysis = "failed"
  /\ hist.body = "static"

\* C9: the resolver is installed exactly while the workflow awaits a prompt,
\* at most one prompt is outstanding, a prompt is issued over an installed
\* resolver only in the step that resolves it, and a step resolves at most one
C9_OnePrompt ==
  /\ [](/\ inputResolver.set <=> pc \in PromptPcs
        /\ Len(promptLog) = resolved + (IF inputResolver.set THEN 1 ELSE 0)
        /\ inputResolver.set => promptLog[Len(promptLog)] = pc)
  /\ [][/\ resolved' \in {resolved, resolved + 1}
        /\ Len(promptLog') <= Len(promptLog) + 1
        /\ (inputResolver.set /\ Len(promptLog') > Len(promptLog)) => resolved' = resolved + 1
        /\ resolved' = resolved + 1 => (inputResolver.set /\ terminal)
        /\ (inputResolver.set /\ ~inputResolver'.set) => resolved' = resolved + 1]_vars

C9_Witness ==
  /\ inputResolver.set
  /\ resolved >= 2
  /\ pc = "promptConfirm"

\* C10 as stated: once Ctrl-C was pressed no prompt is issued and no stage,
\* commit, checkout, fetch, pull or push
C10_TornDown ==
  [][ctrlC =>
       /\ promptLog' = promptLog
       /\ \A i \in (Len(gitLog) + 1)..Len(gitLog') : gitLog'[i].op \notin Mutating]_vars

\* C11: at most one automatic run is in flight; a trigger that finds the
\* latch set issues no Git operation and is dropped; the latch is set exactly
\* while a run is in flight, so every exit of a run releases it
C11_SingleFlight ==
  /\ [](mgr.active =>
          /\ Cardinality(InFlight(mgr)) <= 1
          /\ mgr.isCommitting <=> InFlight(mgr) # {}
          /\ \A i \in 1..MaxRuns :
               /\ mgr.runs[i].latched =>
                    (mgr.runs[i].pc = "dropped" /\ mgr.runs[i].ops = << >>)
               /\ mgr.runs[i].pc = "done" =>
                    mgr.runs[i].exit \in {"noRepository", "noChanges", "commitFailed",
                                          "thrown", "success"})
  /\ [][mgr.active =>
          \A i \in 1..MaxRuns :
            (mgr.runs[i].pc # "done" /\ mgr'.runs[i].pc = "done") => ~mgr'.isCommitting]_vars

C11_Witness ==
  /\ mgr.active
  /\ mgr.runs[1].exit = "thrown"
  /\ mgr.runs[2].latched
  /\ mgr.runs[3].exit = "commitFailed"
  /\ ~mgr.isCommitting

\* the exits on which the workflow closes the session: completion, a declined
\* confirmation, the commit workflow's no-changes exit
ClosingOutcomes == {"success", "cancelled", "noChanges"}

\* C12: the workflow closes the session, or schedules its closing, exactly on
\* the closing exits; every other exit leaves the session as it was
C12_ClosedOnlyOnCompletion ==
  /\ []((wf \in {"commit", "pull"} /\ ~ctrlC) =>
          /\ (timers # {} \/ ~terminal \/ ~isRunning)
               <=> (pc = "ended" /\ outcome \in ClosingOutcomes)
          /\ outcome = "noChanges" => wf = "commit")
  /\ [][(wf \in {"commit", "pull"} /\ pc # "ended" /\ pc' = "ended") =>
          IF outcome' \in ClosingOutcomes
          THEN timers' \in {timers \cup {"close"}, timers \cup {"closeImmediately"}}
          ELSE UNCHANGED <<timers, terminal, isRunning>>]_vars

C12_Witness ==
  /\ wf = "pull"
  /\ outcome = "exception"
  /\ ~ctrlC
  /\ terminal /\ isRunning /\ timers = {}

\* C13: the commit operation is issued at most once, and after a failed
\* stage-all or a failed commit the run has ended with no checkout, branch
\* creation, pull or push
C13_CommitFatal ==
  wf = "commit" =>
    /\ Count("commit") <= 1
    /\ hist.stage = "failed" =>
         (pc = "ended" /\ outcome = "stageFailed" /\ Count("commit") = 0)
    /\ hist.commit = "failed" => (pc = "ended" /\ outcome = "commitFailed")
    /\ (hist.stage = "failed" \/ hist.commit = "failed") =>
         OpsAt({"checkoutBranch", "createBranch", "pull", "push"}) = {}

C13_Witness ==
  /\ wf = "commit"
  /\ hist.stage = "ok"
  /\ hist.commit = "failed"
  /\ w.needsBranchSwitch
  /\ cfg.pushAfterCommit

\* C14: after a deferred checkout or branch creation that fails, the commit
\* having succeeded, the run has ended with the switch failure reported, the
\* switch is the last operation issued and no pull or push was issued
C14_SwitchFailure ==
  (wf = "commit" /\ hist.switch = "failed") =>
    /\ hist.commit = "ok"
    /\ pc = "ended"
    /\ outcome = "switchFailed"
    /\ gitLog[Len(gitLog)].op \in {"checkoutBranch", "createBranch"}
    /\ OpsAt({"pull", "push"}) = {}
    /\ Cardinality(OpsAt({"commit", "checkoutBranch", "createBranch"})) = 2

C14_Witness ==
  /\ wf = "commit"
  /\ hist.switch = "failed"
  /\ cfg.pushAfterCommit
  /\ cfg.defaultRemote \in remotes
  /\ gitLog[Len(gitLog)].op = "checkoutBranch"

\* C15: without quick mode, stage, commit, checkout, branch creation and push
\* are issued only after the confirmation was answered yes; after a no none
\* of them is issued and the session is closed
C15_ConfirmGate ==
  (wf = "commit" /\ ~cfg.quickMode) =>
    /\ OpsAt({"stageAll", "commit", "checkoutBranch", "createBranch", "pull", "push"}) # {}
         => hist.confirm = "yes"
    /\ hist.confirm = "no" =>
         /\ pc = "ended"
         /\ outcome = "cancelled"
         /\ ~isRunning
         /\ "close" \in timers \/ ~terminal

C15_Witness ==
  /\ wf = "commit"
  /\ ~cfg.quickMode
  /\ hist.confirm = "no"
  /\ ~ctrlC
  /\ w.needsBranchSwitch

\* C16 as stated: an empty line entered at the message prompt when no
\* generated message exists ends the run as a validation failure, and
\* nothing is issued
C16_EmptyMessageHalts ==
  [][(/\ wf = "commit"
      /\ pc = "promptMessage"
      /\ w.commitMessage = Empty
      /\ currentInput = Empty
      /\ resolved' = resolved + 1)
       => (pc' = "ended" /\ outcome' = "emptyMessage" /\ gitLog' = gitLog)]_vars

\* C17: confirm returns its default when the trimmed line is empty or is the
\* displayed hint, and otherwise returns true exactly when the trimmed line
\* is y or yes in any case
C17_Confirm ==
  (call.fun = "confirm" /\ call.done) =>
    LET line == Trim(call.line)
        hint == IF call.defaultYes THEN <<"Y", "/", "n">> ELSE <<"y", "/", "N">> IN
    /\ call.prompts = 1
    /\ call.result = IF line = Empty \/ line = hint
                     THEN call.defaultYes
                     ELSE ToLower(line) \in {<<"y">>, <<"y", "e", "s">>}

C17_Witness ==
  /\ call.fun = "confirm"
  /\ call.done
  /\ call.defaultYes
  /\ call.line = <<Space, "n">>
  /\ call.result = FALSE

\* a line that is a number: an optional sign and then digits only
IsNumber(line) ==
  LET u == IF line # Empty /\ Head(line) \in {"+", "-"} THEN Tail(line) ELSE line IN
  u # Empty /\ \A i \in 1..Len(u) : u[i] \in Digits

\* C18 as stated: select prompts once, returns options[n-1] for a number n
\* within 1..|options| and the default option for every empty, non-numeric or
\* out-of-range line
C18_SelectFallsBack ==
  (call.fun = "select" /\ call.done) =>
    LET line == Trim(call.line)
        n == ParseInt(line).val IN
    /\ call.prompts = 1
    /\ call.result = IF IsNumber(line) /\ 1 <= n /\ n <= Len(call.options)
                     THEN call.options[n]
                     ELSE call.options[call.defaultIndex + 1]

\* C20: the parsed status has hasChanges exactly when the three lists
\* together hold at least one entry
C20_HasChanges ==
  (call.fun = "getStatus" /\ call.done) =>
    (call.result.hasChanges
       <=> Len(call.result.staged) + Len(call.result.unstaged)
             + Len(call.result.untracked) > 0)

C20_Witness ==
  /\ call.fun = "getStatus"
  /\ call.done
  /\ call.result.hasChanges
  /\ call.result.staged = << >>
  /\ call.result.unstaged = << >>
  /\ Len(call.result.untracked) = 2

\* C19 as stated: the line of a prompt starts empty when the prompt is issued,
\* a character is appended to it, Backspace removes its last character, and
\* Enter resolves the prompt to the line, or to the default when the line is
\* empty, and empties the buffer
C19_LineEditing ==
  [][/\ Len(promptLog') > Len(promptLog) => currentInput' = Empty
     /\ (inputResolver.set /\ Len(currentInput') = Len(currentInput) + 1) =>
          SubSeq(currentInput', 1, Len(currentInput)) = currentInput
     /\ (inputResolver.set /\ resolved' = resolved /\ Len(currentInput') < Len(currentInput)) =>
          currentInput' = SubSeq(currentInput, 1, Len(currentInput) - 1)
     /\ (pc = "promptMessage" /\ resolved' = resolved + 1) =>
          /\ w'.commitMessage = IF currentInput = Empty THEN inputResolver.defaultValue
                                ELSE currentInput
          /\ currentInput' = Empty]_vars

\* the entries of a list
Range(list) == {list[i] : i \in 1..Len(list)}

\* C21: a status line whose index column and working-tree column are both
\* neither a space nor '?' puts its path in the staged list and in the
\* unstaged list; a line whose index column is '?' puts its path in the
\* untracked list and adds no entry to the other two lists
C21_BothColumns ==
  (call.fun = "getStatus" /\ call.done) =>
    LET out == call.stdout
        r == call.result
        marks == {i \in 1..Len(out) : out[i][1] = "?"} IN
    /\ \A i \in 1..Len(out) :
         (out[i][1] \notin {Space, "?"} /\ out[i][2] \notin {Space, "?"}) =>
           /\ SubSeq(out[i], 4, Len(out[i])) \in Range(r.staged)
           /\ SubSeq(out[i], 4, Len(out[i])) \in Range(r.unstaged)
    /\ \A i \in marks : SubSeq(out[i], 4, Len(out[i])) \in Range(r.untracked)
    /\ Len(r.untracked) = Cardinality(marks)
    /\ Len(r.staged) <= Len(out) - Cardinality(marks)
    /\ Len(r.unstaged) <= Len(out) - Cardinality(marks)

C21_Witness ==
  /\ call.fun = "getStatus"
  /\ call.done
  /\ call.stdout = <<<<"M", "M", Space, "f">>, <<"?", "?", Space, "g">>>>
  /\ call.result.staged = <<<<"f">>>>
  /\ call.result.unstaged = <<<<"f">>>>
  /\ call.result.untracked = <<<<"g">>>>

\* C22: once the child's 'close' or 'error' event has fired, the runner's
\* promise is settled with the result of the first of them and stays so:
\* code 0 gives success with the trimmed stdout, another code gives a failure
\* with the trimmed stderr or, when that is empty, the text naming the code,
\* and a failed launch gives a failure with the error's message
C22_OneResult ==
  (call.fun = "run") =>
    /\ call.done <=> call.events # << >>
    /\ call.done =>
         LET e == call.events[1] IN
         call.result =
           IF e.kind = "error" THEN [success |-> FALSE, error |-> e.message]
           ELSE IF e.code = 0 THEN [success |-> TRUE, data |-> Trim(call.stdout)]
           ELSE IF Trim(call.stderr) # Empty
           THEN [success |-> FALSE, error |-> Trim(call.stderr)]
           ELSE [success |-> FALSE,
                 error |-> <<"Git command failed with code ">> \o CodeString(e.code)]

C22_Witness ==
  /\ call.fun = "run"
  /\ Len(call.events) = 2
  /\ call.events[1].kind = "error"
  /\ call.events[2].kind = "close"
  /\ call.result = [success |-> FALSE, error |-> <<"spawn git ENOENT">>]

\* C23 as stated: a commit message that is not blank and has no white space
\* at either end reaches git as the single argument after -m, character for
\* character
C23_SingleArgument ==
  (/\ call.fun = "commit"
   /\ call.done
   /\ call.message # Empty
   /\ Trim(call.message) = call.message) =>
    /\ call.result.invoked
    /\ call.result.args = <<<<"commit">>, <<"-m">>, call.message>>

\* C24: createBranch fails with one of its two messages and starts no git
\* for a name that is empty, all white space, or holds white space or one of
\* ~ ^ : ? * [ ] \; for every other name it starts git once, with
\* checkout -b as the first two arguments
C24_NameValidation ==
  (call.fun = "createBranch" /\ call.done) =>
    LET branch == call.branch
        r == call.result
        refused == \/ branch = Empty
                   \/ \E i \in 1..Len(branch) :
                        branch[i] \in {Space, "\n", "~", "^", ":", "?", "*", "[", "]", "\\"} IN
    IF refused
    THEN /\ ~r.success
         /\ r.error \in {<<"Branch name cannot be empty">>,
                          <<"Branch name contains invalid characters (spaces or special chars)">>}
         /\ r.invocations = << >>
    ELSE /\ Len(r.invocations) = 1
         /\ Len(r.invocations[1]) >= 2
         /\ SubSeq(r.invocations[1], 1, 2) = <<<<"checkout">>, <<"-b">>>>

C24_Witness ==
  /\ call.fun = "createBranch"
  /\ call.done
  /\ call.branch = <<"b", "'", "b">>
  /\ call.result.success
  /\ call.result.invocations = <<<<<<"checkout">>, <<"-b">>, <<"b", "'", "b">>>>>>

\* the last pull of the pull workflow succeeded
PullSucceeded ==
  wf = "pull" /\ hist.pulls # << >> /\ hist.pulls[Len(hist.pulls)].success

C26_JoinAll ==
  (call.fun = "getDiffContext") =>
    /\ call.done <=> Len(call.order) = 3
    /\ call.done =>
         LET p == call.plan IN
         IF ~p.status.success \/ ~p.staged.success \/ ~p.unstaged.success
              \/ ~p.branch.success
         THEN ~call.result.success
         ELSE /\ call.result.success
              /\ call.result.data.status = p.status.data
              /\ call.result.data.branch = p.branch.data
              /\ call.result.data.diff =
                   IF p.staged.data # Empty /\ p.unstaged.data # Empty
                   THEN p.staged.data \o <<"\n">> \o p.unstaged.data
                   ELSE p.staged.data \o p.unstaged.data

C26_Witness ==
  /\ call.fun = "getDiffContext"
  /\ call.done
  /\ call.order = <<"branch", "diff", "status">>
  /\ call.result.success
  /\ call.result.data.diff = <<"d", "\n", "d">>

\* C27 as stated: a keystroke delivered while no prompt is outstanding is not
\* kept: every prompt is issued with an empty line, so that it resolves to
\* what was typed after it was issued
C27_NeverQueued ==
  [][(~inputResolver.set /\ inputResolver'.set) => currentInput' = Empty]_vars

\* C28 as stated: in the commit workflow every push issued while the branch
\* has no upstream carries -u, the retry push after a recovery pull included
\* (a rejected push and a pull leave the upstream as hasUpstream() found it)
C28_UpstreamFlag ==
  (wf = "commit" /\ hist.upstream = "unset") =>
    \A i \in OpsAt({"push"}) : "-u" \in gitLog[i].flags

\* C29 as stated: in the commit workflow the retry pull has the flags of the
\* first recovery pull and --allow-unrelated-histories in addition
C29_SamePull ==
  wf = "commit" =>
    \A i \in OpsAt({"pull"}), j \in OpsAt({"pull"}) :
      i < j => gitLog[j].flags = gitLog[i].flags \cup {"--allow-unrelated-histories"}

\* C30 as stated: in the pull workflow fetch and pull are issued only after
\* a status query that succeeded and reported no changes
C30_StatusGate ==
  (wf = "pull" /\ OpsAt({"fetch", "pull"}) # {}) => w.statusSeen = "clean"

\* the paths of the lines of a status output, in order
PathsOf(lines) == [i \in 1..Len(lines) |-> SubSeq(lines[i], 4, Len(lines[i]))]

\* C31 as stated: every line of the status output is classified by its two
\* columns and reported with its whole path, wherever the line stands: staged
\* holds the paths of the lines with an index column other than space and
\* '?', unstaged those with a working-tree column other than space and '?',
\* untracked those with '?' in the index column
C31_ByColumns ==
  (call.fun = "getStatus" /\ call.done) =>
    LET IsStaged(line) == line[1] \notin {Space, "?"}
        IsUnstaged(line) == line[1] # "?" /\ line[2] \notin {Space, "?"}
        IsUntracked(line) == line[1] = "?" IN
    /\ call.result.staged = PathsOf(SelectSeq(call.stdout, IsStaged))
    /\ call.result.unstaged = PathsOf(SelectSeq(call.stdout, IsUnstaged))
    /\ call.result.untracked = PathsOf(SelectSeq(call.stdout, IsUntracked))

\* C32 as stated: checkout, add-remote, set-url, stage-files, push and fetch
\* start git with the caller's value as one argument of unchanged content,
\* whatever spaces, quotes, backticks or '$' it holds
C32_OneArgument ==
  (call.fun = "executeGit" /\ call.done) =>
    call.result.args =
      CASE call.op = "checkoutBranch" -> <<<<"checkout">>, call.value>>
        [] call.op = "addRemote" -> <<<<"remote">>, <<"add">>, <<"origin">>, call.value>>
        [] call.op = "setRemoteUrl" ->
             <<<<"remote">>, <<"set-url">>, <<"origin">>, call.value>>
        [] call.op = "stageFiles" -> <<<<"add">>, call.value>>
        [] call.op = "push" -> <<<<"push">>, <<"origin">>, call.value>>
        [] call.op = "fetch" -> <<<<"fetch">>, call.value>>

\* C33 as stated: in the commit workflow a target branch name that fails the
\* name validation halts the run before any stage, commit, checkout or push
C33_HaltsBeforeMutation ==
  (/\ wf = "commit"
   /\ \E i \in 1..Len(w.targetBranch) :
        w.targetBranch[i] \in {Space, "~", "^", ":", "?", "*", "[", "]", "\\"}) =>
    OpsAt({"stageAll", "commit", "checkoutBranch", "push"}) = {}

\* the text holds the words, whatever their case
Has(text, words) == Includes(ToLower(text), words)

\* C34: the conflict classifier of the pull workflow gives every error text
\* one kind, without regard to case: rebase for 'rebase' with 'conflict' or
\* 'could not apply', else merge for 'merge' with 'conflict', else pull for
\* 'conflict' or 'would be overwritten', else none; and the three kinds have
\* three different instruction scripts
C34_Classifier ==
  (call.fun = "detectConflictType" /\ call.done) =>
    LET e == call.error
        kind == call.result.conflictType IN
    /\ kind \in {"rebase", "merge", "pull", NULL}
    /\ kind = "rebase" <=>
         (Has(e, <<"rebase">>)
            /\ (Has(e, <<"conflict">>) \/ Has(e, <<"could", "not", "apply">>)))
    /\ kind = "merge" <=>
         (kind # "rebase" /\ Has(e, <<"merge">>) /\ Has(e, <<"conflict">>))
    /\ kind = "pull" <=>
         (kind \notin {"rebase", "merge"}
            /\ (Has(e, <<"conflict">>) \/ Has(e, <<"would", "be", "overwritten">>)))
    /\ kind # NULL => call.result.instructions = GetConflictInstructions(kind)
    /\ \A a, b \in {"rebase", "merge", "pull"} :
         a # b => GetConflictInstructions(a) # GetConflictInstructions(b)

C34_Witness ==
  /\ call.fun = "detectConflictType"
  /\ call.done
  /\ call.error = <<"Rebase", "merge", "CONFLICT">>
  /\ call.result.conflictType = "rebase"

\* C35 as stated: the commit workflow takes a pull error text for a conflict
\* exactly when the classifier of the pull workflow gives it a kind
C35_SameVerdict ==
  (call.fun = "isConflict" /\ call.done) =>
    (call.result <=> DetectConflictType(call.error) # NULL)

\* C36 as stated: in the auto-commit manager, whenever saves are pending the
\* debounce timer is armed or a commit run is in flight
C36_NeverStranded ==
  (mgr.active /\ mgr.pendingChanges # {}) =>
    (mgr.debounceTimer \/ InFlight(mgr) # {})

\* ------------------- the command and the manager in one extension host
\* the quick commit command (extension.ts) and the manager (initAutoCommit)
\* live in one extension host; both find the repository by detectRepository()

\* the quick commit command is invoked in a window whose manager is enabled
InitBoth ==
  /\ wf = "commit"
  /\ cfg = [quickMode |-> TRUE, autoStageAll |-> TRUE, pushAfterCommit |-> FALSE,
            aiValid |-> FALSE, defaultRemote |-> "origin"]
  /\ remotes = {}
  /\ pc = "isGitInstalled"
  /\ w = W0
  /\ currentInput = Empty
  /\ inputResolver = NoResolver
  /\ isRunning = TRUE
  /\ terminal = TRUE
  /\ timers = {}
  /\ gitLog = <<[op |-> "isGitInstalled", flags |-> {}]>>
  /\ promptLog = << >>
  /\ resolved = 0
  /\ ctrlC = FALSE
  /\ outcome = "running"
  /\ hist = NoHist
  /\ mgr = NewManager([enabled |-> TRUE, pushAfterCommit |-> FALSE,
                       generateAiMessage |-> FALSE, aiKey |-> FALSE])
  /\ call = NoCall

\* the editor saves one document before the first automatic run
FirstSave == mgr.started = 0 /\ mgr.pendingChanges = {} /\ OnDocumentSave

\* the steps of the command under this configuration, interleaved with the
\* manager's
NextBoth ==
  \/ EnterIdle
  \/ HandleChar
  \/ HandleBackspace
  \/ HandleCtrlC
  \/ CloseTimer
  \/ CloseImmediatelyTimer
  \/ GitInstalledReturns
  \/ DetectRepositoryReturns
  \/ EnterRepoUrl
  \/ InitRepositoryReturns
  \/ AddRemoteInitReturns
  \/ GetCurrentBranchReturns
  \/ GetStatusReturns
  \/ EnterMessage
  \/ HasRemote1Returns
  \/ EnterRemoteUrl
  \/ AddRemoteReturns
  \/ StageAllReturns
  \/ CommitReturns
  \/ FirstSave
  \/ ManagerExecuteAutoCommit
  \/ AutoDetectRepositoryReturns
  \/ AutoGetStatusReturns
  \/ AutoStageAllReturns
  \/ AutoCommitReturns

SpecBoth == InitBoth /\ [][NextBoth]_vars

\* the command is between its first and its last Git operation
ManualInFlight == wf = "commit" /\ outcome = "running" /\ pc \in Mutating

\* C37 as stated: a manually triggered commit run and an automatic commit run
\* are never both between their first and last Git operation
C37_MutuallyExclusive == ~(ManualInFlight /\ InFlight(mgr) # {})

\* C38: in the pull workflow the branch prompt follows a successful fetch and
\* has the current branch as default, the confirmation follows the branch
\* prompt, the pull follows a confirmation resolved to true; a failed fetch
\* or a declined confirmation ends the run with no pull and no push
C38_FixedOrder ==
  /\ [](wf = "pull" =>
         /\ (Prompted("promptPullBranch") \/ OpsAt({"pull", "push"}) # {})
              => hist.fetch = "ok"
         /\ hist.fetch = "failed" => (pc = "ended" /\ outcome = "fetchFailed")
         /\ outcome \in {"fetchFailed", "cancelled"} => OpsAt({"pull", "push"}) = {}
         /\ pc = "promptPullBranch" => inputResolver.defaultValue = w.currentBranch)
  /\ [][wf = "pull" =>
         /\ (pc # "promptPullBranch" /\ pc' = "promptPullBranch") => pc = "fetch"
         /\ (pc # "promptConfirmPull" /\ pc' = "promptConfirmPull")
              => pc = "promptPullBranch"
         /\ (pc # "pull1" /\ pc' = "pull1")
              => (pc = "promptConfirmPull" /\ Confirm(Answer, TRUE))
         /\ (pc = "promptConfirmPull" /\ pc' # pc /\ ~Confirm(Answer, TRUE))
              => (pc' = "ended" /\ outcome' = "cancelled" /\ gitLog' = gitLog)]_vars

\* a confirmed pull was issued after a successful fetch and both prompts
C38_Witness ==
  /\ wf = "pull"
  /\ pc = "pull1"
  /\ hist.fetch = "ok"
  /\ promptLog # << >>
  /\ promptLog[Len(promptLog)] = "promptConfirmPull"

\* C39 as stated: getCurrentBranch never reports a bare HEAD; when the
\* symbolic-name query gives HEAD, fails or is empty and the short-hash query
\* succeeds the result is the success 'HEAD detached at <short-hash>', and the
\* operation fails only when both queries fail
C39_DetachedHead ==
  (call.fun = "getCurrentBranch" /\ call.done) =>
    LET noName == ~call.result.success \/ call.result.data \in {Empty, <<"HEAD">>} IN
    /\ call.value.data # <<"HEAD">>
    /\ (noName /\ call.hashResult.success)
         => call.value = [success |-> TRUE,
                          data |-> <<"HEAD", "detached", "at">> \o call.hashResult.data]
    /\ ~call.value.success => (~call.result.success /\ ~call.hashResult.success)

\* ------------------------------------------------------------ termination
\* every awaited tool or generator call eventually returns
CallsReturn ==
  /\ WF_vars(GitInstalledReturns)
  /\ WF_vars(DetectRepositoryReturns)
  /\ WF_vars(InitRepositoryReturns)
  /\ WF_vars(AddRemoteInitReturns)
  /\ WF_vars(GetCurrentBranchReturns)
  /\ WF_vars(GetStatusReturns)
  /\ WF_vars(ListBranchesReturns)
  /\ WF_vars(GetDiffContextReturns)
  /\ WF_vars(GenerateReturns)
  /\ WF_vars(HasRemote1Returns)
  /\ WF_vars(AddRemoteReturns)
  /\ WF_vars(StageAllReturns)
  /\ WF_vars(CommitReturns)
  /\ WF_vars(CreateBranchReturns)
  /\ WF_vars(CheckoutBranchReturns)
  /\ WF_vars(HasRemote2Returns)
  /\ WF_vars(HasUpstreamReturns)
  /\ WF_vars(PushReturns)
  /\ WF_vars(PullReturns)
  /\ WF_vars(PullRetryReturns)
  /\ WF_vars(AnalyzeReturns)
  /\ WF_vars(PushRetryReturns)
  /\ WF_vars(PullDetectRepositoryReturns)
  /\ WF_vars(PullGetStatusReturns)
  /\ WF_vars(PullGetCurrentBranchReturns)
  /\ WF_vars(GetRemotesReturns)
  /\ WF_vars(FetchReturns)
  /\ WF_vars(PullPullReturns)
  /\ WF_vars(PullPullRetryReturns)
  /\ WF_vars(PullAnalyzeReturns)
  /\ WF_vars(PullHasUpstreamReturns)
  /\ WF_vars(PullPushReturns)

SpecLive == Init /\ [][Next]_vars /\ CallsReturn

\* every issued prompt is eventually answered
PromptsAnswered == []<>(resolved = Len(promptLog))

\* C40: a run of the commit or the pull workflow issues at most one commit,
\* one checkout or branch creation, two pulls and two pushes, and it ends when
\* every prompt is eventually answered and every call eventually returns
C40_Terminates ==
  /\ [](/\ Count("commit") <= 1
        /\ Count("checkoutBranch") + Count("createBranch") <= 1
        /\ Count("pull") <= 2
        /\ Count("push") <= 2)
  /\ PromptsAnswered => <>(pc = "ended")

\* a run that ended after a commit, two pulls and two pushes
C40_Witness ==
  /\ pc = "ended"
  /\ Count("commit") = 1
  /\ Count("pull") = 2
  /\ Count("push") = 2
====
